---- MODULE Spec2Model ----
(***************************************************************************)
(* Webhook handlers of the backdoordox repository: the Meta Conversions    *)
(* API forwarders (api/meta-capi-app.js, api/meta-capi.js and their        *)
(* earlier variants) and the ClickFunnels logging endpoint                 *)
(* (api/cf/log.js and its variants).                                       *)
(*                                                                         *)
(* One request is followed from its arrival to its response.  JavaScript   *)
(* strings are sequences of one-character strings, JavaScript values are   *)
(* records [t, s, p]: t the type, s the characters of a string, p the      *)
(* ordered properties of an object (or the items of an array).             *)
(***************************************************************************)
EXTENDS Integers, Sequences, FiniteSets, TLC

(***************************************************************************)
(* JavaScript values                                                       *)
(***************************************************************************)
Undef == [t |-> "undefined", s |-> <<>>, p |-> <<>>]

Null == [t |-> "null", s |-> <<>>, p |-> <<>>]

Str(x) == [t |-> "string", s |-> x, p |-> <<>>]

Bool(b) == [t |-> "boolean", s |-> IF b THEN <<"1">> ELSE <<>>, p |-> <<>>]

Prop(k, v) == [k |-> k, v |-> v]

Obj(props) == [t |-> "object", s |-> <<>>, p |-> props]

\* an array: its items are properties whose keys are not used
Arr(items) == [t |-> "array", s |-> <<>>, p |-> [i \in 1..Len(items) |-> Prop(<<>>, items[i])]]

\* the hex digest crypto.createHash("sha256").update(x).digest("hex"): a
\* one-way value, different for different x and different from every string
Digest(x) == [t |-> "sha256hex", s |-> x, p |-> <<>>]

\* the text of a JSON document, kept as the document it encodes
JsonText(props) == [t |-> "jsontext", s |-> <<>>, p |-> props]

IsNullish(v) == v.t \in {"undefined", "null"}

\* JavaScript truthiness
Truthy(v) ==
    CASE v.t \in {"undefined", "null"} -> FALSE
      [] v.t \in {"string", "boolean"} -> v.s # <<>>
      [] OTHER -> TRUE

\* a || b
Or(a, b) == IF Truthy(a) THEN a ELSE b

\* a ?? b
Coalesce(a, b) == IF IsNullish(a) THEN b ELSE a

\* a && b
And(a, b) == IF Truthy(a) THEN b ELSE a

\* typeof v === 'string'
IsString(v) == v.t \in {"string", "jsontext"}

\* Object.keys(o), in insertion order
Keys(o) == IF o.t = "object" THEN [i \in 1..Len(o.p) |-> o.p[i].k] ELSE <<>>

HasKey(o, key) == o.t = "object" /\ \E i \in 1..Len(o.p) : o.p[i].k = key

\* o[key] (o is not null or undefined)
Get(o, key) ==
    IF HasKey(o, key)
    THEN o.p[CHOOSE i \in 1..Len(o.p) : o.p[i].k = key].v
    ELSE Undef

(***************************************************************************)
(* JavaScript strings                                                      *)
(***************************************************************************)
WhiteSpace == {" ", "\t", "\n", "\r"}

Digits == {"0", "1", "2", "3", "4", "5", "6", "7", "8", "9"}

LowerOf(c) ==
    CASE c = "A" -> "a" [] c = "B" -> "b" [] c = "C" -> "c" [] c = "D" -> "d"
      [] c = "E" -> "e" [] c = "F" -> "f" [] c = "G" -> "g" [] c = "H" -> "h"
      [] c = "I" -> "i" [] c = "J" -> "j" [] c = "K" -> "k" [] c = "L" -> "l"
      [] c = "M" -> "m" [] c = "N" -> "n" [] c = "O" -> "o" [] c = "P" -> "p"
      [] c = "Q" -> "q" [] c = "R" -> "r" [] c = "S" -> "s" [] c = "T" -> "t"
      [] c = "U" -> "u" [] c = "V" -> "v" [] c = "W" -> "w" [] c = "X" -> "x"
      [] c = "Y" -> "y" [] c = "Z" -> "z" [] OTHER -> c

\* s.toLowerCase()
ToLowerCase(s) == [i \in 1..Len(s) |-> LowerOf(s[i])]

\* s.trim()
Trim(s) ==
    LET idx == {i \in 1..Len(s) : s[i] \notin WhiteSpace}
    IN  IF idx = {} THEN <<>>
        ELSE LET lo == CHOOSE i \in idx : \A j \in idx : i <= j
                 hi == CHOOSE i \in idx : \A j \in idx : j <= i
             IN  SubSeq(s, lo, hi)

\* s.endsWith(suffix)
EndsWith(s, suffix) ==
    /\ Len(suffix) <= Len(s)
    /\ SubSeq(s, Len(s) - Len(suffix) + 1, Len(s)) = suffix

\* s.includes(part)
Includes(s, part) ==
    \/ part = <<>>
    \/ \E i \in 1..(Len(s) - Len(part) + 1) :
           /\ s[i] = part[1]
           /\ SubSeq(s, i, i + Len(part) - 1) = part

ObjectObject == <<"[","o","b","j","e","c","t"," ","O","b","j","e","c","t","]">>

\* String(v) for the values the handlers pass to it
JSString(v) ==
    CASE v.t = "string" -> v.s
      [] v.t = "undefined" -> <<"u","n","d","e","f","i","n","e","d">>
      [] v.t = "null" -> <<"n","u","l","l">>
      [] OTHER -> ObjectObject

(***************************************************************************)
(* String literals of the handlers                                         *)
(***************************************************************************)
s_event_id == <<"e","v","e","n","t","_","i","d">>

s_eventId == <<"e","v","e","n","t","I","d">>

s_fbp == <<"f","b","p">>

s_fbc == <<"f","b","c">>

s_rawRequest == <<"r","a","w","R","e","q","u","e","s","t">>

s_fields == <<"f","i","e","l","d","s">>

s_formID == <<"f","o","r","m","I","D">>

s_formId == <<"f","o","r","m","I","d">>

s_parentURL == <<"p","a","r","e","n","t","U","R","L">>

s_referer == <<"r","e","f","e","r","e","r">>

s_answers == <<"a","n","s","w","e","r","s">>

s_name == <<"n","a","m","e">>

s_key == <<"k","e","y">>

s_answer == <<"a","n","s","w","e","r">>

s_value == <<"v","a","l","u","e">>

s_email == <<"e","m","a","i","l">>

s_mobile18 == <<"m","o","b","i","l","e","1","8">>

s_dateOf == <<"d","a","t","e","O","f">>

s_partnerName == <<"p","a","r","t","n","e","r","N","a","m","e">>

s_dateOf22 == <<"d","a","t","e","O","f","2","2">>

s_partnerEmail == <<"p","a","r","t","n","e","r","E","m","a","i","l">>

s_partnerMobile == <<"p","a","r","t","n","e","r","M","o","b","i","l","e">>

s_event_source_url == <<"e","v","e","n","t","_","s","o","u","r","c","e","_","u","r","l">>

s_utm_source == <<"u","t","m","_","s","o","u","r","c","e">>

s_utm_medium == <<"u","t","m","_","m","e","d","i","u","m">>

s_utm_campaign == <<"u","t","m","_","c","a","m","p","a","i","g","n">>

s_utm_term == <<"u","t","m","_","t","e","r","m">>

s_utm_content == <<"u","t","m","_","c","o","n","t","e","n","t">>

s_fbclid == <<"f","b","c","l","i","d">>

s_gclid == <<"g","c","l","i","d">>

s_msclkid == <<"m","s","c","l","k","i","d">>

s_q27_whatsYour27 == <<"q","2","7","_","w","h","a","t","s","Y","o","u","r","2","7">>

s_q24_whatsYour24 == <<"q","2","4","_","w","h","a","t","s","Y","o","u","r","2","4">>

s_q25_whatsYour25 == <<"q","2","5","_","w","h","a","t","s","Y","o","u","r","2","5">>

s_q26_whatsYour26 == <<"q","2","6","_","w","h","a","t","s","Y","o","u","r","2","6">>

s_first == <<"f","i","r","s","t">>

s_last == <<"l","a","s","t">>

s_full == <<"f","u","l","l">>

s_first_name == <<"f","i","r","s","t","_","n","a","m","e">>

s_last_name == <<"l","a","s","t","_","n","a","m","e">>

s_firstName == <<"f","i","r","s","t","N","a","m","e">>

s_lastName == <<"l","a","s","t","N","a","m","e">>

s_phone == <<"p","h","o","n","e">>

s_number == <<"n","u","m","b","e","r">>

s_year == <<"y","e","a","r">>

s_month == <<"m","o","n","t","h">>

s_day == <<"d","a","y">>

s_slug == <<"s","l","u","g">>

s_q3_email == <<"q","3","_","e","m","a","i","l">>

s_client_email == <<"c","l","i","e","n","t","_","e","m","a","i","l">>

s_Email == <<"E","m","a","i","l">>

s_q4_phone == <<"q","4","_","p","h","o","n","e">>

s_phoneNumber == <<"p","h","o","n","e","N","u","m","b","e","r">>

s_mobile == <<"m","o","b","i","l","e">>

s_firstname == <<"f","i","r","s","t","n","a","m","e">>

s_lastname == <<"l","a","s","t","n","a","m","e">>

s_source == <<"s","o","u","r","c","e">>

s_data == <<"d","a","t","a">>

s_event_name == <<"e","v","e","n","t","_","n","a","m","e">>

s_event_time == <<"e","v","e","n","t","_","t","i","m","e">>

s_action_source == <<"a","c","t","i","o","n","_","s","o","u","r","c","e">>

s_user_data == <<"u","s","e","r","_","d","a","t","a">>

s_custom_data == <<"c","u","s","t","o","m","_","d","a","t","a">>

s_em == <<"e","m">>

s_ph == <<"p","h">>

s_fn == <<"f","n">>

s_ln == <<"l","n">>

s_db == <<"d","b">>

s_client_ip_address == <<"c","l","i","e","n","t","_","i","p","_","a","d","d","r","e","s","s">>

s_client_user_agent == <<"c","l","i","e","n","t","_","u","s","e","r","_","a","g","e","n","t">>

s_partner_present == <<"p","a","r","t","n","e","r","_","p","r","e","s","e","n","t">>

s_test_event_code == <<"t","e","s","t","_","e","v","e","n","t","_","c","o","d","e">>

s_website == <<"w","e","b","s","i","t","e">>

s_Lead == <<"L","e","a","d">>

s_SubmitApplication == <<"S","u","b","m","i","t","A","p","p","l","i","c","a","t","i","o","n">>

s_jotform_webhook == <<"j","o","t","f","o","r","m","_","w","e","b","h","o","o","k">>

s_jotform_webhook_app == <<"j","o","t","f","o","r","m","_","w","e","b","h","o","o","k","_","a","p","p">>

s_q3_email_email == <<"q","3","_","e","m","a","i","l","[","e","m","a","i","l","]">>

s_q4_phone_full == <<"q","4","_","p","h","o","n","e","[","f","u","l","l","]">>

s_phoneNumber_full == <<"p","h","o","n","e","N","u","m","b","e","r","[","f","u","l","l","]">>

s_q1_name_first == <<"q","1","_","n","a","m","e","[","f","i","r","s","t","]">>

s_name_first == <<"n","a","m","e","[","f","i","r","s","t","]">>

s_q1_name_last == <<"q","1","_","n","a","m","e","[","l","a","s","t","]">>

s_name_last == <<"n","a","m","e","[","l","a","s","t","]">>

s_url_app == <<"h","t","t","p","s",":","/","/","l","y","f","t","g","r","o","w","t","h",".","c","o","m","/","g","o","/","a","p","p","/">>

s_url_survey == <<"h","t","t","p","s",":","/","/","l","y","f","t","g","r","o","w","t","h",".","c","o","m","/","g","o","/","t","s","g","f","/","s","u","r","v","e","y","/">>

s_url_application == <<"h","t","t","p","s",":","/","/","g","o",".","l","y","f","t","c","a","p","i","t","a","l",".","c","o","m","/","a","p","p","l","i","c","a","t","i","o","n">>

s_url_lead_form == <<"h","t","t","p","s",":","/","/","l","y","f","t","g","r","o","w","t","h",".","c","o","m","/","l","e","a","d","-","f","o","r","m">>

s_url_jotform == <<"h","t","t","p","s",":","/","/","w","w","w",".","j","o","t","f","o","r","m",".","c","o","m","/">>

(***************************************************************************)
(* Helpers shared by the conversion-event handlers                         *)
(***************************************************************************)
\* a sha256 that digests the trimmed value without lowercasing it
sha256NoLower(v) ==
    IF ~Truthy(v) THEN Undef
    ELSE Digest(Trim(JSString(v)))

\* a sha256 without the guard for a missing value
sha256Unguarded(v) == Digest(ToLowerCase(Trim(JSString(v))))

\* sha256(v): undefined for a falsy value, else the digest of
\* String(v).trim().toLowerCase()
sha256(v) ==
    IF ~Truthy(v) THEN Undef
    ELSE Digest(ToLowerCase(Trim(JSString(v))))

\* the entries of obj, in key order, that pickCookieLike accepts for key
CookieLikeHits(obj, key) ==
    {i \in 1..Len(obj.p) :
        /\ obj.p[i].k = key \/ EndsWith(obj.p[i].k, <<"_">> \o key)
        /\ IsString(obj.p[i].v)
        /\ Trim(obj.p[i].v.s) # <<>>}

\* pickCookieLike(obj, key): the trimmed value of the first key, in key
\* order, that is key or ends with "_" + key and holds a non-blank string
pickCookieLike(obj, key) ==
    IF ~Truthy(obj) \/ obj.t # "object" \/ CookieLikeHits(obj, key) = {} THEN Undef
    ELSE LET hits == CookieLikeHits(obj, key)
             i == CHOOSE h \in hits : \A g \in hits : h <= g
         IN  Str(Trim(obj.p[i].v.s))

\* s.split(/\s+/) of a trimmed, non-empty string: its maximal runs of
\* non-whitespace characters
RECURSIVE Words(_)
Words(s) ==
    IF s = <<>> THEN <<>>
    ELSE IF Head(s) \in WhiteSpace THEN Words(Tail(s))
    ELSE LET stops == {i \in 1..Len(s) : s[i] \in WhiteSpace}
             n == IF stops = {} THEN Len(s)
                  ELSE (CHOOSE i \in stops : \A j \in stops : i <= j) - 1
         IN  <<SubSeq(s, 1, n)>> \o Words(SubSeq(s, n + 1, Len(s)))

\* parts.join(' ')
RECURSIVE JoinSpace(_)
JoinSpace(parts) ==
    IF parts = <<>> THEN <<>>
    ELSE IF Len(parts) = 1 THEN parts[1]
    ELSE parts[1] \o <<" ">> \o JoinSpace(Tail(parts))

\* the first / last pair of a full-name string: full.trim().split(/\s+/),
\* the first part and the rest joined by one space
SplitWords(s) ==
    LET parts == Words(Trim(s))
    IN  IF Len(parts) = 0 THEN [first |-> Str(<<>>), last |-> Undef]
        ELSE IF Len(parts) = 1 THEN [first |-> Str(parts[1]), last |-> Undef]
        ELSE [first |-> Str(parts[1]), last |-> Str(JoinSpace(Tail(parts)))]

\* splitName(full) of api/meta-capi-app.js
splitName(full) ==
    IF ~Truthy(full) \/ full.t # "string" THEN [first |-> Undef, last |-> Undef]
    ELSE SplitWords(full.s)

AllDigits(s) == \A i \in 1..Len(s) : s[i] \in Digits

DateSep == {"-", "/"}

PadStart2Not(x) == x

\* x.padStart(2, "0")
PadStart2(x) == IF Len(x) < 2 THEN <<"0">> \o x ELSE x

\* new Date(s) for a string that is neither of the two numeric shapes: the
\* date-only forms of the ECMAScript date-time format, YYYY and YYYY-MM
\* (month 01..12), are read as UTC; <<>> stands for an invalid date
DateOnly(s) ==
    IF Len(s) = 4 /\ AllDigits(s) THEN s \o <<"0","1","0","1">>
    ELSE IF /\ Len(s) = 7
            /\ AllDigits(SubSeq(s, 1, 4)) /\ s[5] = "-" /\ AllDigits(SubSeq(s, 6, 7))
            /\ SubSeq(s, 6, 7) \in {<<"0","1">>, <<"0","2">>, <<"0","3">>, <<"0","4">>,
                                    <<"0","5">>, <<"0","6">>, <<"0","7">>, <<"0","8">>,
                                    <<"0","9">>, <<"1","0">>, <<"1","1">>, <<"1","2">>}
         THEN SubSeq(s, 1, 4) \o SubSeq(s, 6, 7) \o <<"0","1">>
    ELSE <<>>

\* normalizeDOB(v): YYYY-M-D or YYYY/M/D, then M/D/YYYY or M-D-YYYY, then
\* whatever new Date() reads, as YYYYMMDD; undefined otherwise
normalizeDOB(v) ==
    IF ~Truthy(v) THEN Undef
    ELSE LET s == Trim(JSString(v))
             n == Len(s)
             ymd == {a \in 1..2 :
                        /\ n - 6 - a \in 1..2
                        /\ AllDigits(SubSeq(s, 1, 4)) /\ s[5] \in DateSep
                        /\ AllDigits(SubSeq(s, 6, 5 + a)) /\ s[6 + a] \in DateSep
                        /\ AllDigits(SubSeq(s, 7 + a, n))}
             mdy == {a \in 1..2 :
                        /\ n - 6 - a \in 1..2
                        /\ AllDigits(SubSeq(s, 1, a)) /\ s[a + 1] \in DateSep
                        /\ AllDigits(SubSeq(s, a + 2, n - 5)) /\ s[n - 4] \in DateSep
                        /\ AllDigits(SubSeq(s, n - 3, n))}
         IN  IF ymd # {}
             THEN LET a == CHOOSE x \in ymd : TRUE
                  IN  Str(SubSeq(s, 1, 4) \o PadStart2(SubSeq(s, 6, 5 + a))
                                          \o PadStart2(SubSeq(s, 7 + a, n)))
             ELSE IF mdy # {}
             THEN LET a == CHOOSE x \in mdy : TRUE
                  IN  Str(SubSeq(s, n - 3, n) \o PadStart2(SubSeq(s, 1, a))
                                              \o PadStart2(SubSeq(s, a + 2, n - 5)))
             ELSE IF DateOnly(s) # <<>> THEN Str(DateOnly(s))
             ELSE Undef

\* pick(obj, keys) of the first /api/meta-capi.js: String(obj[k]) for the
\* first listed key whose value is not null and not blank
PickHits(obj, keys) ==
    {i \in 1..Len(keys) :
        /\ ~IsNullish(Get(obj, keys[i]))
        /\ Trim(JSString(Get(obj, keys[i]))) # <<>>}

pick(obj, keys) ==
    IF ~Truthy(obj) \/ PickHits(obj, keys) = {} THEN Undef
    ELSE LET hits == PickHits(obj, keys)
             i == CHOOSE h \in hits : \A g \in hits : h <= g
         IN  Str(JSString(Get(obj, keys[i])))

\* Object.values(o)
Values(o) == IF o.t = "object" THEN [i \in 1..Len(o.p) |-> o.p[i].v] ELSE <<>>

\* the least element of a non-empty set of indices
Least(S) == CHOOSE i \in S : \A j \in S : i <= j

\* o?.[key]
GetOpt(o, key) == IF IsNullish(o) THEN Undef ELSE Get(o, key)

\* x != null ? x : y
NotNullElse(x, y) == IF IsNullish(x) THEN y ELSE x

\* getAnswerByName(rr, target) of api/meta-capi.js: the answer (or value) of
\* the first entry of rr.answers whose name, lower-cased, is target
getAnswerByName(rr, target) ==
    IF ~Truthy(rr) \/ ~Truthy(Get(rr, s_answers)) THEN Undef
    ELSE LET as == Values(Get(rr, s_answers))
             nameOf(a) == IF Truthy(a) /\ Truthy(Get(a, s_name))
                          THEN ToLowerCase(JSString(Get(a, s_name))) ELSE <<>>
             hits == {i \in 1..Len(as) : nameOf(as[i]) = ToLowerCase(target)}
         IN  IF hits = {} THEN Undef
             ELSE LET a == as[Least(hits)]
                  IN  NotNullElse(Get(a, s_answer), Get(a, s_value))

\* resolveEventId(body, rr) of api/meta-capi.js (first handler)
resolveEventIdAnswers(body, rr) ==
    Or(getAnswerByName(rr, s_event_id),
       Or(pickCookieLike(Get(body, s_fields), s_event_id),
          Or(Get(body, s_event_id), Or(Get(body, s_eventId), Undef))))

\* resolveEventId(body, rr) of api/meta-capi-app.js
resolveEventId(body, rr) ==
    LET hidden == Or(pickCookieLike(rr, s_event_id),
                     Or(pickCookieLike(Get(body, s_fields), s_event_id),
                        Or(Get(body, s_event_id), Or(Get(body, s_eventId), Undef))))
        internal == Or(GetOpt(rr, s_event_id), Undef)
    IN  Or(hidden, Or(internal, Undef))

(***************************************************************************)
(* extractApplicant of the Smart-PDF "SubmitApplication" handler           *)
(***************************************************************************)
Letters == {"a","b","c","d","e","f","g","h","i","j","k","l","m",
            "n","o","p","q","r","s","t","u","v","w","x","y","z"}

\* isEmail: /^[^\s@]+@[^\s@]+\.[^\s@]+$/ on the trimmed string
isEmail(v) ==
    /\ v.t = "string"
    /\ LET s == Trim(v.s)
           ats == {i \in 1..Len(s) : s[i] = "@"}
       IN  /\ \A i \in 1..Len(s) : s[i] \notin WhiteSpace
           /\ Cardinality(ats) = 1
           /\ LET a == Least(ats)
              IN  /\ a > 1
                  /\ \E d \in (a + 2)..(Len(s) - 1) : s[d] = "."

\* s.replace(/[^\d+]/g, '')
KeepDigitsPlus(s) == SelectSeq(s, LAMBDA c : c \in Digits \cup {"+"})

\* normPhone(v): the digits and '+' of a string (or of v.full, v.phone,
\* v.number), when there are at least 7 of them
normPhone(v) ==
    IF ~Truthy(v) THEN Undef
    ELSE LET s == IF v.t = "string" THEN v
                  ELSE Or(Get(v, s_full), Or(Get(v, s_phone), Or(Get(v, s_number), Str(<<>>))))
         IN  IF ~Truthy(s) THEN Undef
             ELSE IF Len(KeepDigitsPlus(s.s)) >= 7 THEN Str(KeepDigitsPlus(s.s))
             ELSE Undef

\* /(^|[^a-z])email([^a-z]|$)/i on a lower-cased key
EmailHint(k) ==
    \E i \in 1..Len(k) :
        /\ i + 4 <= Len(k)
        /\ SubSeq(k, i, i + 4) = s_email
        /\ i = 1 \/ k[i - 1] \notin Letters
        /\ i + 4 = Len(k) \/ k[i + 5] \notin Letters

\* /(phone|mobile|cell|tel)/i
PhoneHint(k) ==
    \E w \in {s_phone, s_mobile, <<"c","e","l","l">>, <<"t","e","l">>} : Includes(k, w)

\* /(dob|birth|dateof|date_of|date-of)/i
DobHint(k) ==
    \E w \in {<<"d","o","b">>, <<"b","i","r","t","h">>, <<"d","a","t","e","o","f">>, <<"d","a","t","e","_","o","f">>, <<"d","a","t","e","-","o","f">>} : Includes(k, w)

\* /(name|applicant)/i
NameHint(k) ==
    \E w \in {s_name, <<"a","p","p","l","i","c","a","n","t">>} : Includes(k, w)

\* /(\d{4}[-/]\d{1,2}[-/]\d{1,2})|(\d{1,2}[-/]\d{1,2}[-/]\d{4})/ somewhere in s
LooksLikeDate(s) ==
    LET dg(i) == i \in 1..Len(s) /\ s[i] \in Digits
        sp(i) == i \in 1..Len(s) /\ s[i] \in DateSep
    IN  \E i \in 1..Len(s) :
          \/ /\ dg(i) /\ dg(i + 1) /\ dg(i + 2) /\ dg(i + 3) /\ sp(i + 4) /\ dg(i + 5)
             /\ \/ sp(i + 6) /\ dg(i + 7)
                \/ dg(i + 6) /\ sp(i + 7) /\ dg(i + 8)
          \/ \E a \in 1..2, b \in 1..2 :
                /\ \A j \in i..(i + a - 1) : dg(j)
                /\ sp(i + a)
                /\ \A j \in (i + a + 1)..(i + a + b) : dg(j)
                /\ sp(i + a + b + 1)
                /\ \A j \in (i + a + b + 2)..(i + a + b + 5) : dg(j)

\* String(x).padStart(n, '0') for n = 2 or 4
PadStart(x, n) == IF Len(x) < n THEN [i \in 1..(n - Len(x)) |-> "0"] \o x ELSE x

NoMatch == [type |-> "none", value |-> Undef]

\* readGeneric(val, keyHint): the kind and value of one answer-like value
readGeneric(val, keyHint) ==
    LET isObj == Truthy(val) /\ val.t = "object"
        s == IF val.t = "string" THEN Trim(val.s) ELSE <<>>
        k == ToLowerCase(keyHint)
    IN  IF isObj /\ (\/ Truthy(Get(val, s_first)) \/ Truthy(Get(val, s_last))
                     \/ Truthy(Get(val, s_firstName)) \/ Truthy(Get(val, s_lastName)))
        THEN [type |-> "name",
              value |-> Obj(<<Prop(s_first, Or(Get(val, s_first), Or(Get(val, s_firstName), Str(<<>>)))),
                              Prop(s_last, Or(Get(val, s_last), Or(Get(val, s_lastName), Str(<<>>))))>>)]
        ELSE IF isObj /\ Truthy(Get(val, s_year)) /\ Truthy(Get(val, s_month)) /\ Truthy(Get(val, s_day))
        THEN [type |-> "dob",
              value |-> Str(PadStart(JSString(Get(val, s_year)), 4) \o <<"-">>
                            \o PadStart(JSString(Get(val, s_month)), 2) \o <<"-">>
                            \o PadStart(JSString(Get(val, s_day)), 2))]
        ELSE IF /\ isObj
                /\ \/ Truthy(Get(val, s_full)) \/ Truthy(Get(val, s_phone)) \/ Truthy(Get(val, s_number))
                /\ Truthy(normPhone(val))
        THEN [type |-> "phone", value |-> normPhone(val)]
        ELSE IF s = <<>> THEN NoMatch
        ELSE IF isEmail(Str(s)) \/ EmailHint(k) THEN [type |-> "email", value |-> Str(s)]
        ELSE IF PhoneHint(k) /\ Truthy(normPhone(Str(s))) THEN [type |-> "phone", value |-> normPhone(Str(s))]
        ELSE IF LooksLikeDate(s) \/ DobHint(k) THEN [type |-> "dob", value |-> Str(s)]
        ELSE IF NameHint(k) THEN [type |-> "name", value |-> Str(s)]
        ELSE NoMatch

\* the top-level keys the scan skips:
\* /^(slug|upload|jsExecutionTracker|submit|build|validated|path|timeToSubmit)$/i
\* and /^(q\d+_utm|utm_|q\d+_fbc|q\d+_fbp|fbp|fbc|event_id)$/i
SkippedKey(key) ==
    LET k == ToLowerCase(key)
        qN(rest) == /\ Len(k) > Len(rest) + 1
                    /\ k[1] = "q"
                    /\ AllDigits(SubSeq(k, 2, Len(k) - Len(rest)))
                    /\ EndsWith(k, rest)
    IN  \/ k \in {s_slug, <<"u","p","l","o","a","d">>, <<"j","s","e","x","e","c","u","t","i","o","n","t","r","a","c","k","e","r">>, <<"s","u","b","m","i","t">>, <<"b","u","i","l","d">>, <<"v","a","l","i","d","a","t","e","d">>, <<"p","a","t","h">>, <<"t","i","m","e","t","o","s","u","b","m","i","t">>}
        \/ k \in {<<"u","t","m","_">>, s_fbp, s_fbc, s_event_id}
        \/ qN(<<"_","u","t","m">>) \/ qN(<<"_","f","b","c">>) \/ qN(<<"_","f","b","p">>)

\* a?.answer ?? a?.value ?? a?.valueText ?? a?.pretty ?? a?.text ?? a
AnswerValue(a) ==
    Coalesce(GetOpt(a, s_answer), Coalesce(GetOpt(a, s_value), Coalesce(GetOpt(a, <<"v","a","l","u","e","T","e","x","t">>),
        Coalesce(GetOpt(a, <<"p","r","e","t","t","y">>), Coalesce(GetOpt(a, <<"t","e","x","t">>), a)))))

\* what extractApplicant classifies, in scan order: the entries of
\* rr.answers, then the top-level keys of rr that are not skipped
ScanResults(rr) ==
    LET answers == GetOpt(rr, s_answers)
        fromAnswers ==
            IF Truthy(rr) /\ Truthy(answers) /\ answers.t = "object"
            THEN [i \in 1..Len(answers.p) |->
                    LET a == answers.p[i].v
                    IN  readGeneric(AnswerValue(a),
                                    JSString(Or(GetOpt(a, s_name), Or(GetOpt(a, s_key), Str(<<>>)))))]
            ELSE <<>>
        fromTop ==
            IF Truthy(rr) /\ rr.t = "object"
            THEN [i \in 1..Len(rr.p) |->
                    IF SkippedKey(rr.p[i].k) THEN NoMatch
                    ELSE readGeneric(rr.p[i].v, rr.p[i].k)]
            ELSE <<>>
    IN  fromAnswers \o fromTop

\* maybeSet: the first value of each kind wins
FirstOfKind(results, kind) ==
    LET hits == {i \in 1..Len(results) : results[i].type = kind}
    IN  IF hits = {} THEN Undef ELSE results[Least(hits)].value

\* extractApplicant(rr)
extractApplicant(rr) ==
    LET results == ScanResults(rr)
    IN  [name |-> FirstOfKind(results, "name"),
         email |-> FirstOfKind(results, "email"),
         phone |-> FirstOfKind(results, "phone"),
         dob |-> FirstOfKind(results, "dob")]

(***************************************************************************)
(* Requests and the body readers                                           *)
(*                                                                         *)
(* A request carries its method, its declared content type and its body.   *)
(* The body is kept as the document it encodes: jsonForm says what the     *)
(* JSON text of an application/json body is ("object", "null", "empty" for *)
(* no text, "malformed" for text that JSON.parse rejects), fields are the  *)
(* top-level entries (the parts of a multipart body), and rrForm / rr are  *)
(* the rawRequest entry ("absent", "object", or "malformed" text).         *)
(***************************************************************************)
\* an exception, with its message
Throw(msg) == [t |-> "throw", s |-> msg, p |-> <<>>]

IsThrow(v) == v.t = "throw"

SyntaxErrorMsg == <<"U","n","e","x","p","e","c","t","e","d"," ","t","o","k","e","n">>

TypeErrorMsg == <<"C","a","n","n","o","t"," ","r","e","a","d"," ","p","r","o","p","e","r","t","i","e","s"," ","o","f"," ","n","u","l","l">>

FetchFailedMsg == <<"f","e","t","c","h"," ","f","a","i","l","e","d">>

\* a number (the event time)
Num(x) == [t |-> "number", s |-> x, p |-> <<>>]

\* now(): the current time in whole seconds
now == Num(<<"n","o","w">>)

\* the raw text of the body, kept as what it encodes
RawText(req) ==
    JsonText(req.fields \o (IF req.rrForm = "object" THEN <<Prop(s_rawRequest, JsonText(req.rr))>> ELSE <<>>))

\* the value of the rawRequest entry as the body carries it
RawRequestEntry(req) ==
    IF req.rrForm = "object" THEN <<Prop(s_rawRequest, Obj(req.rr))>>
    ELSE IF req.rrForm = "malformed" THEN <<Prop(s_rawRequest, Str(<<"{">>))>>
    ELSE <<>>

\* the rawRequest part of a multipart body: the text of the document
RawRequestPart(req) ==
    IF req.rrForm = "object" THEN <<Prop(s_rawRequest, JsonText(req.rr))>>
    ELSE IF req.rrForm = "malformed" THEN <<Prop(s_rawRequest, Str(<<"{">>))>>
    ELSE <<>>

\* parseQS(raw) of a body of an undeclared type: the pairs of a body made
\* of key=value pairs; text without "=" is one key with an empty value
ParsedText(req) ==
    CASE req.jsonForm = "pairs" -> Obj(req.fields)
      [] req.jsonForm = "malformed" -> Obj(<<Prop(<<"{">>, Str(<<>>))>>)
      [] req.jsonForm = "null" -> Obj(<<Prop(<<"n","u","l","l">>, Str(<<>>))>>)
      [] OTHER -> Obj(<<>>)

\* try { return JSON.parse(raw) } catch { return parseQS(raw) }
Fallback(req) ==
    CASE req.jsonForm = "object" -> Obj(req.fields \o RawRequestEntry(req))
      [] req.jsonForm = "null" -> Null
      [] OTHER -> ParsedText(req)

\* JSON.parse(raw) / parseQS(raw) of a body that is not multipart, and the
\* fallback for a content type that is none of the three
ParsedFlat(req) ==
    IF req.ct = "application/json"
    THEN CASE req.jsonForm = "empty" -> Obj(<<>>)
           [] req.jsonForm = "malformed" -> Throw(SyntaxErrorMsg)
           [] req.jsonForm = "null" -> Null
           [] OTHER -> Obj(req.fields \o RawRequestEntry(req))
    ELSE IF req.ct = "application/x-www-form-urlencoded" THEN Obj(req.fields)
    ELSE Fallback(req)

\* s.split("/").pop()
LastSegment(s) ==
    LET slashes == {i \in 1..Len(s) : s[i] = "/"}
    IN  IF slashes = {} THEN s
        ELSE SubSeq(s, (CHOOSE i \in slashes : \A j \in slashes : j <= i) + 1, Len(s))

\* rr?.slug?.split("/")?.pop()
SlugId(rr) ==
    IF IsNullish(rr) \/ Get(rr, s_slug).t # "string" THEN Undef
    ELSE Str(LastSegment(Get(rr, s_slug).s))

\* a decoding of rawRequest that lets the exception of JSON.parse through
ParsedRawRequestStrict(req) ==
    IF req.rrForm = "object" THEN Obj(req.rr)
    ELSE IF req.rrForm = "malformed" THEN Throw(SyntaxErrorMsg)
    ELSE Obj(<<>>)

\* let rr = {}; try { if (fields.rawRequest) rr = JSON.parse(fields.rawRequest) } catch {}
ParsedRawRequest(req) == IF req.rrForm = "object" THEN Obj(req.rr) ELSE Obj(<<>>)

\* readBody(req) of api/meta-capi-app.js
readBody(req) ==
    IF req.ct = "multipart/form-data"
    THEN LET fields == Obj(req.fields \o RawRequestPart(req))
             rr == ParsedRawRequest(req)
         IN  Obj(<<Prop(s_rawRequest, rr),
                   Prop(s_formID, Or(SlugId(rr), Or(Get(fields, s_formID), Get(rr, s_formID)))),
                   Prop(s_fbp, Get(fields, s_fbp)),
                   Prop(s_fbc, Get(fields, s_fbc)),
                   Prop(s_parentURL, Or(Get(fields, s_parentURL), Get(fields, s_referer))),
                   Prop(s_fields, fields)>>)
    ELSE ParsedFlat(req)

\* readBody(req) of the SubmitApplication handler
readBodySubmit(req) ==
    IF req.ct = "multipart/form-data"
    THEN LET fields == Obj(req.fields \o RawRequestPart(req))
             rr == ParsedRawRequest(req)
         IN  Obj(<<Prop(s_rawRequest, rr),
                   Prop(s_formID, Or(SlugId(rr), Or(Get(fields, s_formID), Get(rr, s_formID)))),
                   Prop(s_fbp, Get(fields, s_fbp)),
                   Prop(s_fbc, Get(fields, s_fbc)),
                   Prop(s_fields, fields)>>)
    ELSE ParsedFlat(req)

\* obj._raw = raw; obj._ct = ct
WithRaw(obj, req) ==
    IF obj.t = "object"
    THEN Obj(SelectSeq(obj.p, LAMBDA e : e.k \notin {<<"_","r","a","w">>, <<"_","c","t">>})
             \o <<Prop(<<"_","r","a","w">>, RawText(req)), Prop(<<"_","c","t">>, Str(<<"c","t">>))>>)
    ELSE obj

\* readBody(req) of api/meta-capi.js (first handler): every result also
\* carries the raw text and the content type; a JSON null cannot carry them:
\* the assignment throws, which fails the request in the JSON branch and
\* leads to parseQS(raw) in the fallback, where it is inside the try
readBodyDebug(req) ==
    IF req.ct = "multipart/form-data"
    THEN LET fields == Obj(req.fields \o RawRequestPart(req))
             rr == ParsedRawRequest(req)
         IN  Obj(<<Prop(s_rawRequest, rr),
                   Prop(s_formID, Or(SlugId(rr), Get(fields, s_formID))),
                   Prop(s_fbp, Get(fields, s_fbp)),
                   Prop(s_fbc, Get(fields, s_fbc)),
                   Prop(s_parentURL, Get(fields, s_parentURL)),
                   Prop(s_fields, fields),
                   Prop(<<"_","r","a","w">>, RawText(req)),
                   Prop(<<"_","c","t">>, Str(<<"c","t">>))>>)
    ELSE LET obj == ParsedFlat(req)
         IN  IF IsThrow(obj) THEN obj
             ELSE IF obj.t = "null"
             THEN IF req.ct = "application/json" THEN Throw(TypeErrorMsg)
                  ELSE WithRaw(ParsedText(req), req)
             ELSE WithRaw(obj, req)

\* the trimmed text of a part matched by /name="x"\r\n\r\n([\s\S]*?)\r\n--/
PartText(req, name) ==
    LET v == Get(Obj(req.fields), name)
    IN  IF v.t = "string" /\ v.s # <<>> THEN Str(Trim(v.s)) ELSE Undef

\* readBody(req) of api/meta-capi.js (second handler)
readBodyRegex(req) ==
    IF req.ct = "multipart/form-data"
    THEN LET rr == ParsedRawRequest(req)
         IN  Obj(<<Prop(s_rawRequest, rr),
                   Prop(s_formID, IF req.rrForm = "object" THEN SlugId(rr) ELSE Undef),
                   Prop(s_fbp, PartText(req, s_fbp)),
                   Prop(s_fbc, PartText(req, s_fbc))>>)
    ELSE ParsedFlat(req)

\* readBody(req) of the first /api/meta-capi.js: no multipart branch, the
\* text of a multipart body is neither JSON nor key=value pairs of the form
readBodyFlat(req) ==
    IF req.ct = "multipart/form-data" THEN Obj(<<Prop(<<"-","-">>, RawText(req))>>)
    ELSE ParsedFlat(req)

(***************************************************************************)
(* JSON.stringify and what a value shows                                   *)
(***************************************************************************)
RECURSIVE Stringify(_), StringifyProps(_), StringifyItems(_)
\* JSON.stringify(v), kept as the document the text encodes: a property
\* whose value is undefined is dropped, an undefined array item becomes null
Stringify(v) ==
    CASE v.t = "object" -> Obj(StringifyProps(v.p))
      [] v.t = "array" -> [t |-> "array", s |-> <<>>, p |-> StringifyItems(v.p)]
      [] OTHER -> v

StringifyProps(ps) ==
    IF ps = <<>> THEN <<>>
    ELSE IF Head(ps).v.t = "undefined" THEN StringifyProps(Tail(ps))
    ELSE <<Prop(Head(ps).k, Stringify(Head(ps).v))>> \o StringifyProps(Tail(ps))

StringifyItems(ps) ==
    IF ps = <<>> THEN <<>>
    ELSE <<Prop(Head(ps).k, IF Head(ps).v.t = "undefined" THEN Null ELSE Stringify(Head(ps).v))>>
         \o StringifyItems(Tail(ps))

RECURSIVE StringsIn(_)
\* the strings a value shows when it is printed or sent
StringsIn(v) ==
    (IF v.t = "string" THEN {v.s} ELSE {})
    \cup UNION {StringsIn(v.p[i].v) : i \in 1..Len(v.p)}

\* Object.keys(user_data).forEach(k => user_data[k] === undefined && delete user_data[k])
Prune(o) == Obj(SelectSeq(o.p, LAMBDA e : e.v.t # "undefined"))

(***************************************************************************)
(* URLs: searchParams.get and the reconstruction of fbc                    *)
(***************************************************************************)
\* the first index of character c in s, or 0
IndexOf(s, c) ==
    LET hits == {i \in 1..Len(s) : s[i] = c}
    IN  IF hits = {} THEN 0 ELSE Least(hits)

\* the query of a URL: the text between the first "?" and the "#"
QueryOf(url) ==
    LET noFrag == IF IndexOf(url, "#") = 0 THEN url ELSE SubSeq(url, 1, IndexOf(url, "#") - 1)
    IN  IF IndexOf(noFrag, "?") = 0 THEN <<>>
        ELSE SubSeq(noFrag, IndexOf(noFrag, "?") + 1, Len(noFrag))

\* the character an escape %XY stands for, "" for an escape outside the table
Escaped(x, y) ==
    CASE <<x, y>> = <<"2", "0">> -> " "
      [] <<x, y>> = <<"2", "6">> -> "&"
      [] <<x, y>> = <<"2", "F">> -> "/"
      [] <<x, y>> = <<"3", "A">> -> ":"
      [] <<x, y>> = <<"3", "D">> -> "="
      [] <<x, y>> = <<"3", "F">> -> "?"
      [] <<x, y>> = <<"2", "5">> -> "%"
      [] OTHER -> ""

RECURSIVE PercentDecode(_)
\* percent-decoding; an escape that cannot be decoded is left as it is
PercentDecode(s) ==
    IF s = <<>> THEN <<>>
    ELSE IF Head(s) = "%" /\ Len(s) >= 3 /\ Escaped(s[2], s[3]) # ""
    THEN <<Escaped(s[2], s[3])>> \o PercentDecode(SubSeq(s, 4, Len(s)))
    ELSE <<Head(s)>> \o PercentDecode(Tail(s))

\* whether decodeURIComponent(s) throws: a "%" not followed by an escape
BadEscape(s) ==
    \E i \in 1..Len(s) :
        /\ s[i] = "%"
        /\ i + 2 > Len(s) \/ Escaped(s[i + 1], s[i + 2]) = ""

PlusToSpace(s) == [i \in 1..Len(s) |-> IF s[i] = "+" THEN " " ELSE s[i]]

RECURSIVE ParamOf(_, _)
\* searchParams.get(name) on a query: the decoded value of the first
\* name=value pair, null (here undefined) when there is none
ParamOf(query, name) ==
    IF query = <<>> THEN Undef
    ELSE LET amp == IndexOf(query, "&")
             pair == IF amp = 0 THEN query ELSE SubSeq(query, 1, amp - 1)
             rest == IF amp = 0 THEN <<>> ELSE SubSeq(query, amp + 1, Len(query))
             eq == IndexOf(pair, "=")
             k == IF eq = 0 THEN pair ELSE SubSeq(pair, 1, eq - 1)
             v == IF eq = 0 THEN <<>> ELSE SubSeq(pair, eq + 1, Len(pair))
         IN  IF pair # <<>> /\ PercentDecode(PlusToSpace(k)) = name
             THEN Str(PercentDecode(PlusToSpace(v)))
             ELSE ParamOf(rest, name)

\* new URL(url, "https://dummy.base").searchParams.get(name)
SearchParam(url, name) == ParamOf(QueryOf(url), name)

\* `fb.1.${ts}.${fbclid}`
FbcFrom(fbclid) == Str(<<"f","b",".","1",".">> \o now.s \o <<".">> \o fbclid)

\* the fbc rebuilt from the fbclid of parentURL, looking first into a nested
\* parentURL parameter (api/meta-capi-app.js and api/meta-capi.js)
FbcFromParent(parentURL) ==
    LET url == IF parentURL.t = "string" THEN parentURL.s ELSE <<>>
        innerCandidate == SearchParam(url, s_parentURL)
        candidate == IF Truthy(innerCandidate) THEN PercentDecode(innerCandidate.s) ELSE url
        fbclid == SearchParam(candidate, s_fbclid)
    IN  IF Truthy(innerCandidate) /\ BadEscape(innerCandidate.s) THEN Undef
        ELSE IF Truthy(fbclid) THEN FbcFrom(fbclid.s)
        ELSE Undef

\* reconstructFBCIfNeeded(currentFbc, body, rr, req) of api/meta-capi-app.js
reconstructFBCIfNeeded(currentFbc, body, rr, req) ==
    IF Truthy(currentFbc) THEN currentFbc
    ELSE FbcFromParent(Or(Get(body, s_parentURL), Or(Get(rr, s_parentURL),
                          Or(Get(rr, s_referer), Or(req.referer, Str(<<>>))))))

\* reconstructFBCIfNeeded(currentFbc, body, rr, req) of the SubmitApplication handler
reconstructFBCSubmit(currentFbc, body, rr, req) ==
    IF Truthy(currentFbc) THEN currentFbc
    ELSE LET parentURL == Or(Get(body, s_parentURL), Or(Get(rr, s_parentURL), Or(req.referer, Str(<<>>))))
             fbclid == SearchParam(IF parentURL.t = "string" THEN parentURL.s ELSE <<>>, s_fbclid)
         IN  IF Truthy(fbclid) THEN FbcFrom(fbclid.s) ELSE Undef

(***************************************************************************)
(* What each conversion-event handler builds from a body it has read       *)
(***************************************************************************)
UTM_KEYS == <<s_utm_source, s_utm_medium, s_utm_campaign, s_utm_term, s_utm_content>>

CLICK_IDS == <<s_fbclid, s_gclid, s_msclkid>>

\* String(req.headers["x-forwarded-for"] || "").split(",")[0] || undefined
ClientIp(req) ==
    LET s == JSString(Or(req.xff, Str(<<>>)))
        first == IF IndexOf(s, ",") = 0 THEN s ELSE SubSeq(s, 1, IndexOf(s, ",") - 1)
    IN  Or(Str(first), Undef)

\* rr.fbp || body.fbp || pickCookieLike(fields, 'fbp') || pickCookieLike(rr, 'fbp')
BrowserId(body, fields, rr, k) ==
    Or(Get(rr, k), Or(Get(body, k), Or(pickCookieLike(fields, k), pickCookieLike(rr, k))))

\* fields[k] ?? rr[k] ?? pickCookieLike(fields, k) ?? pickCookieLike(rr, k)
Lookup(fields, rr, k) ==
    Coalesce(Get(fields, k), Coalesce(Get(rr, k),
        Coalesce(pickCookieLike(fields, k), pickCookieLike(rr, k))))

\* the entries of utms / clickIds: the listed keys that have a truthy value
Tags(fields, rr, keys) ==
    Obj(SelectSeq([i \in 1..Len(keys) |-> Prop(keys[i], Lookup(fields, rr, keys[i]))],
                  LAMBDA e : Truthy(e.v)))

\* Object.keys(o) as a logged array
KeyList(o) == Arr([i \in 1..Len(Keys(o)) |-> Str(Keys(o)[i])])

\* x ? [sha256(x)] : undefined
HashedList(x) == IF Truthy(x) THEN Arr(<<sha256(x)>>) ELSE Undef

\* x ? sha256(x) : undefined
HashedIf(x) == IF Truthy(x) THEN sha256(x) ELSE Undef

\* a value that is set and not blank: x && String(x).trim()
NotBlank(x) == Truthy(x) /\ Trim(JSString(x)) # <<>>

\* a partner_present that carries the partner's name when there is one
PartnerNameSent(partnerName, partnerEmail, partnerMobile, partnerDOB) ==
    IF NotBlank(partnerName) THEN partnerName
    ELSE Bool(NotBlank(partnerEmail) \/ NotBlank(partnerMobile) \/ NotBlank(partnerDOB))

\* partner_present: Boolean((partnerName && String(partnerName).trim()) || ...)
PartnerPresent(partnerName, partnerEmail, partnerMobile, partnerDOB) ==
    Bool(\/ NotBlank(partnerName) \/ NotBlank(partnerEmail)
         \/ NotBlank(partnerMobile) \/ NotBlank(partnerDOB))

\* the event of api/meta-capi-app.js ("Lead", Smart PDF)
MetaCapiAppEvent(body, req, env) ==
    LET rr == Or(Get(body, s_rawRequest), Obj(<<>>))
        fields == Or(Get(body, s_fields), Or(body, Obj(<<>>)))
        fbp == BrowserId(body, fields, rr, s_fbp)
        fbc == reconstructFBCIfNeeded(BrowserId(body, fields, rr, s_fbc), body, rr, req)
        utms == Tags(fields, rr, UTM_KEYS)
        clickIds == Tags(fields, rr, CLICK_IDS)
        names == splitName(Lookup(fields, rr, s_name))
        email == Lookup(fields, rr, s_email)
        phone == Lookup(fields, rr, s_mobile18)
        db == normalizeDOB(Lookup(fields, rr, s_dateOf))
        partnerName == Lookup(fields, rr, s_partnerName)
        partnerDOB == Lookup(fields, rr, s_dateOf22)
        partnerEmail == Lookup(fields, rr, s_partnerEmail)
        partnerMobile == Lookup(fields, rr, s_partnerMobile)
        eventId == resolveEventId(body, rr)
        event_source_url == Or(Get(rr, s_event_source_url),
                               Or(Get(fields, s_event_source_url), Str(s_url_app)))
        formId == Or(Get(body, s_formID), Get(rr, s_formID))
        user_data == Prune(Obj(<<
            Prop(s_em, HashedList(email)),
            Prop(s_ph, HashedList(phone)),
            Prop(s_fn, HashedIf(names.first)),
            Prop(s_ln, HashedIf(names.last)),
            Prop(s_db, HashedIf(db)),
            Prop(s_fbp, Or(fbp, Undef)),
            Prop(s_fbc, Or(fbc, Undef)),
            Prop(s_client_ip_address, ClientIp(req)),
            Prop(s_client_user_agent, req.ua)>>))
        custom_data == Obj(<<Prop(s_source, Str(s_jotform_webhook_app))>> \o utms.p \o clickIds.p
            \o <<Prop(s_partner_present,
                      PartnerPresent(partnerName, partnerEmail, partnerMobile, partnerDOB))>>)
    IN  [email |-> email, phones |-> <<phone>>, first_name |-> names.first,
         last_name |-> names.last, db |-> db, eventId |-> eventId,
         payload |-> Obj(<<Prop(s_data, Arr(<<Obj(<<
             Prop(s_event_name, Str(s_Lead)),
             Prop(s_event_time, now),
             Prop(s_event_id, eventId),
             Prop(s_action_source, Str(s_website)),
             Prop(s_event_source_url, event_source_url),
             Prop(s_user_data, user_data),
             Prop(s_custom_data, custom_data)>>)>>))>>),
         logsBefore |-> <<>>,
         logsAfter |-> <<Obj(<<
             Prop(s_formId, formId), Prop(s_eventId, eventId),
             Prop(s_event_source_url, event_source_url),
             Prop(<<"h","a","v","e","_","f","b","p">>, Bool(Truthy(fbp))), Prop(<<"h","a","v","e","_","f","b","c">>, Bool(Truthy(fbc))),
             Prop(<<"u","t","m","s">>, utms), Prop(<<"c","l","i","c","k","I","d","s">>, clickIds),
             Prop(<<"f","i","e","l","d","K","e","y","s">>, KeyList(Or(fields, Obj(<<>>))))>>)>>]

\* phones.length ? phones.map(p => sha256(p)) : undefined
HashedPhones(phones) ==
    IF Len(phones) = 0 THEN Undef
    ELSE Arr([i \in 1..Len(phones) |-> sha256(phones[i])])

\* the two phones with the personal one first
TwoPhonesPersonalFirst(rr) ==
    SelectSeq(<<And(Get(rr, s_q26_whatsYour26), Get(Get(rr, s_q26_whatsYour26), s_full)),
                And(Get(rr, s_q25_whatsYour25), Get(Get(rr, s_q25_whatsYour25), s_full))>>,
              Truthy)

\* [business_phone, personal_phone].filter(Boolean)
TwoPhones(rr) ==
    SelectSeq(<<And(Get(rr, s_q25_whatsYour25), Get(Get(rr, s_q25_whatsYour25), s_full)),
                And(Get(rr, s_q26_whatsYour26), Get(Get(rr, s_q26_whatsYour26), s_full))>>,
              Truthy)

\* what dumpWebhook(body, ct, raw) prints
dumpWebhook(body) ==
    LET rr == Or(Get(body, s_rawRequest), Obj(<<>>))
        fields == Get(body, s_fields)
        answers == Get(rr, s_answers)
        named == SelectSeq(Values(answers), LAMBDA a : Truthy(a) /\ Truthy(Get(a, s_name)))
        evs == SelectSeq(Values(answers), LAMBDA a : Truthy(a) /\ Get(a, s_name) = Str(s_event_id))
    IN  <<Get(body, <<"_","c","t">>), Get(body, <<"_","r","a","w">>), KeyList(body)>>
        \o (IF Truthy(fields)
            THEN <<KeyList(fields), Get(fields, s_event_id), Get(fields, s_eventId)>>
            ELSE <<>>)
        \o <<KeyList(rr)>>
        \o (IF Truthy(answers)
            THEN <<Arr([i \in 1..Len(named) |-> Get(named[i], s_name)]),
                   IF Len(evs) = 0 THEN Undef
                   ELSE Coalesce(Get(evs[1], s_answer), Get(evs[1], s_value))>>
            ELSE <<>>)

\* the event of api/meta-capi.js (first handler: "Lead", event id resolved
\* from the hidden field)
MetaCapiEvent(body, req, env) ==
    LET rr == Or(Get(body, s_rawRequest), Obj(<<>>))
        fbp == Or(Get(rr, s_fbp), Or(Get(body, s_fbp),
                  Or(pickCookieLike(Get(body, s_fields), s_fbp), pickCookieLike(rr, s_fbp))))
        fbc0 == Or(Get(rr, s_fbc), Or(Get(body, s_fbc),
                   Or(pickCookieLike(Get(body, s_fields), s_fbc), pickCookieLike(rr, s_fbc))))
        fbc == IF Truthy(fbc0) THEN fbc0
               ELSE LET made == FbcFromParent(Or(Get(body, s_parentURL), Or(Get(rr, s_parentURL),
                                        Or(Get(rr, s_referer), Or(req.referer, Str(<<>>))))))
                    IN  IF Truthy(made) THEN made ELSE fbc0
        email == Or(Get(rr, s_q27_whatsYour27), Get(rr, s_email))
        first_name == Or(And(Get(rr, s_q24_whatsYour24), Get(Get(rr, s_q24_whatsYour24), s_first)),
                         Get(rr, s_first_name))
        last_name == Or(And(Get(rr, s_q24_whatsYour24), Get(Get(rr, s_q24_whatsYour24), s_last)),
                        Get(rr, s_last_name))
        phones == TwoPhones(rr)
        eventId == resolveEventIdAnswers(body, rr)
        event_source_url == Str(s_url_survey)
        formId == Or(Get(body, s_formID), Get(rr, s_formID))
        fieldKeys == IF Truthy(Get(body, s_fields)) THEN KeyList(Get(body, s_fields)) ELSE Arr(<<>>)
        user_data == Prune(Obj(<<
            Prop(s_em, HashedList(email)),
            Prop(s_ph, HashedPhones(phones)),
            Prop(s_fn, sha256(first_name)),
            Prop(s_ln, sha256(last_name)),
            Prop(s_fbp, fbp),
            Prop(s_fbc, fbc),
            Prop(s_client_ip_address, ClientIp(req)),
            Prop(s_client_user_agent, req.ua)>>))
        payload == Obj(<<Prop(s_data, Arr(<<Obj(<<
             Prop(s_event_name, Str(s_Lead)),
             Prop(s_event_time, now),
             Prop(s_event_id, eventId),
             Prop(s_action_source, Str(s_website)),
             Prop(s_event_source_url, event_source_url),
             Prop(s_user_data, user_data),
             Prop(s_custom_data, Obj(<<Prop(s_source, Str(s_jotform_webhook))>>))>>)>>))>>)
    IN  [email |-> email, phones |-> phones, first_name |-> first_name,
         last_name |-> last_name, db |-> Undef, eventId |-> eventId,
         payload |-> payload,
         logsBefore |-> dumpWebhook(body) \o <<
             Obj(<<Prop(<<"f","r","o","m","_","a","n","s","w","e","r","s">>, getAnswerByName(rr, s_event_id)),
                   Prop(<<"f","i","e","l","d","s","_","e","v","e","n","t","_","i","d">>, pickCookieLike(Get(body, s_fields), s_event_id)),
                   Prop(<<"b","o","d","y","_","e","v","e","n","t","_","i","d">>, Get(body, s_event_id)),
                   Prop(<<"b","o","d","y","_","e","v","e","n","t","I","d">>, Get(body, s_eventId)),
                   Prop(<<"r","e","s","o","l","v","e","d">>, eventId)>>),
             Obj(<<Prop(s_email, email), Prop(s_first_name, first_name),
                   Prop(s_last_name, last_name), Prop(<<"p","h","o","n","e","s">>, Arr(phones)),
                   Prop(s_eventId, eventId), Prop(s_formId, formId),
                   Prop(s_event_source_url, event_source_url),
                   Prop(s_fbp, fbp), Prop(s_fbc, fbc), Prop(<<"f","i","e","l","d","K","e","y","s">>, fieldKeys)>>)>>,
         logsAfter |-> <<Obj(<<Prop(<<"p","i","x","e","l","I","d">>, env.META_PIXEL_ID)>>), Stringify(payload)>>]

\* ...(process.env.META_TEST_EVENT_CODE ? { test_event_code: ... } : {})
TestEventCode(env) ==
    IF Truthy(env.META_TEST_EVENT_CODE)
    THEN <<Prop(s_test_event_code, env.META_TEST_EVENT_CODE)>> ELSE <<>>

\* the event of api/meta-capi.js (second handler: "Lead", event id taken
\* from rawRequest.event_id, test code in the payload)
MetaCapiRawEvent(body, req, env) ==
    LET rr == Or(Get(body, s_rawRequest), Obj(<<>>))
        fbp == Or(Get(rr, s_fbp), Get(body, s_fbp))
        fbc0 == Or(Get(rr, s_fbc), Get(body, s_fbc))
        fbc == IF Truthy(fbc0) THEN fbc0
               ELSE LET made == FbcFromParent(Or(Get(rr, s_parentURL),
                                        Or(Get(rr, s_referer), Or(req.referer, Str(<<>>)))))
                    IN  IF Truthy(made) THEN made ELSE fbc0
        email == Or(Get(rr, s_q27_whatsYour27), Get(rr, s_email))
        first_name == Or(And(Get(rr, s_q24_whatsYour24), Get(Get(rr, s_q24_whatsYour24), s_first)),
                         Get(rr, s_first_name))
        last_name == Or(And(Get(rr, s_q24_whatsYour24), Get(Get(rr, s_q24_whatsYour24), s_last)),
                        Get(rr, s_last_name))
        phones == TwoPhones(rr)
        eventId == Get(rr, s_event_id)
        event_source_url == Str(s_url_survey)
        formId == Or(Get(body, s_formID), Get(rr, s_formID))
        user_data == Prune(Obj(<<
            Prop(s_em, HashedList(email)),
            Prop(s_ph, HashedPhones(phones)),
            Prop(s_fn, sha256(first_name)),
            Prop(s_ln, sha256(last_name)),
            Prop(s_fbp, fbp),
            Prop(s_fbc, fbc),
            Prop(s_client_ip_address, ClientIp(req)),
            Prop(s_client_user_agent, req.ua)>>))
        payload == Obj(<<Prop(s_data, Arr(<<Obj(<<
             Prop(s_event_name, Str(s_Lead)),
             Prop(s_event_time, now),
             Prop(s_event_id, eventId),
             Prop(s_action_source, Str(s_website)),
             Prop(s_event_source_url, event_source_url),
             Prop(s_user_data, user_data),
             Prop(s_custom_data, Obj(<<Prop(s_source, Str(s_jotform_webhook))>>))>>)>>))>>
             \o TestEventCode(env))
    IN  [email |-> email, phones |-> phones, first_name |-> first_name,
         last_name |-> last_name, db |-> Undef, eventId |-> eventId,
         payload |-> payload,
         logsBefore |-> <<
             Obj(<<Prop(s_email, email), Prop(s_first_name, first_name),
                   Prop(s_last_name, last_name), Prop(<<"p","h","o","n","e","s">>, Arr(phones)),
                   Prop(s_eventId, eventId), Prop(s_formId, formId),
                   Prop(s_event_source_url, event_source_url),
                   Prop(s_fbp, fbp), Prop(s_fbc, fbc)>>)>>,
         logsAfter |-> <<Obj(<<Prop(<<"p","i","x","e","l","I","d">>, env.META_PIXEL_ID),
                               Prop(<<"t","e","s","t","E","v","e","n","t","C","o","d","e">>, env.META_TEST_EVENT_CODE)>>),
                         Stringify(payload)>>]

\* first / last of the scanned name: a structured name as it is, a string
\* split at its first run of whitespace
ScannedNames(name) ==
    IF ~Truthy(name) THEN [first |-> Undef, last |-> Undef]
    ELSE IF name.t = "object"
    THEN [first |-> Or(Get(name, s_first), Undef), last |-> Or(Get(name, s_last), Undef)]
    ELSE SplitWords(JSString(name))

\* const { first, last } = ...; email; phone; db: the final fields of a scan
FinalFields(scanned) ==
    [names |-> ScannedNames(scanned.name),
     email |-> scanned.email,
     phone |-> IF Truthy(scanned.phone) THEN Str(KeepDigitsPlus(scanned.phone.s)) ELSE scanned.phone,
     db |-> normalizeDOB(scanned.dob)]

\* what both debug lines print of the extraction: presence flags and the
\* keys of the answers, no values
Detect(f, rr) ==
    <<Prop(<<"g","o","t","_","f","i","r","s","t">>, Bool(Truthy(f.names.first))),
      Prop(<<"g","o","t","_","l","a","s","t">>, Bool(Truthy(f.names.last))),
      Prop(<<"g","o","t","_","e","m","a","i","l">>, Bool(Truthy(f.email))),
      Prop(<<"g","o","t","_","p","h","o","n","e">>, Bool(Truthy(f.phone))),
      Prop(<<"g","o","t","_","d","b">>, Bool(Truthy(f.db))),
      Prop(<<"h","a","s","_","a","n","s","w","e","r","s">>, Bool(Truthy(rr) /\ Truthy(Get(rr, s_answers)))),
      Prop(<<"a","n","s","w","e","r","_","k","e","y","s">>,
           IF Truthy(rr) /\ Truthy(Get(rr, s_answers)) THEN KeyList(Get(rr, s_answers)) ELSE Arr(<<>>))>>

\* user_data of the SubmitApplication handler, undefined entries deleted
SubmitUserData(f, fbp, fbc, req) ==
    Prune(Obj(<<
        Prop(s_em, HashedList(f.email)),
        Prop(s_ph, HashedList(f.phone)),
        Prop(s_fn, HashedIf(f.names.first)),
        Prop(s_ln, HashedIf(f.names.last)),
        Prop(s_db, HashedIf(f.db)),
        Prop(s_fbp, Or(fbp, Undef)),
        Prop(s_fbc, Or(fbc, Undef)),
        Prop(s_client_ip_address, ClientIp(req)),
        Prop(s_client_user_agent, req.ua)>>))

\* the payload of the SubmitApplication handler
SubmitPayload(eventId, user_data) ==
    Obj(<<Prop(s_data, Arr(<<Obj(<<
        Prop(s_event_name, Str(s_SubmitApplication)),
        Prop(s_event_time, now),
        Prop(s_event_id, eventId),
        Prop(s_action_source, Str(s_website)),
        Prop(s_event_source_url, Str(s_url_application)),
        Prop(s_user_data, user_data),
        Prop(s_custom_data, Obj(<<Prop(s_source, Str(s_jotform_webhook_app))>>))>>)>>))>>)

\* the event once the final fields, the browser ids and the event id are known
SubmitEventOf(f, fbp, fbc, eventId, detect, utms, clickIds, env, payload) ==
    [email |-> f.email, phones |-> <<f.phone>>, first_name |-> f.names.first,
     last_name |-> f.names.last, db |-> f.db, eventId |-> eventId,
     payload |-> payload,
     logsBefore |-> <<Obj(detect)>>,
     logsAfter |-> <<
         Obj(<<Prop(s_eventId, eventId),
               Prop(<<"h","a","v","e","_","f","b","p">>, Bool(Truthy(fbp))), Prop(<<"h","a","v","e","_","f","b","c">>, Bool(Truthy(fbc)))>>
             \o detect \o <<Prop(<<"u","t","m","s">>, utms), Prop(<<"c","l","i","c","k","I","d","s">>, clickIds)>>),
         Obj(<<Prop(<<"u","r","l">>, env.META_PIXEL_ID), Prop(<<"a","c","c","e","s","s","_","t","o","k","e","n">>, env.META_ACCESS_TOKEN)>>
             \o TestEventCode(env))>>]

\* the handler's work on the parsed body, rr and fields
SubmitEventFrom(body, rr, fields, f, req, env) ==
    SubmitEventOf(
        f,
        Or(Get(rr, s_fbp), Or(Get(body, s_fbp),
           Or(pickCookieLike(fields, s_fbp), pickCookieLike(rr, s_fbp)))),
        reconstructFBCSubmit(
           Or(Get(rr, s_fbc), Or(Get(body, s_fbc),
              Or(pickCookieLike(fields, s_fbc), pickCookieLike(rr, s_fbc)))),
           body, rr, req),
        resolveEventId(body, rr),
        Detect(f, rr),
        Tags(fields, rr, UTM_KEYS),
        Tags(fields, rr, CLICK_IDS),
        env,
        SubmitPayload(resolveEventId(body, rr),
            SubmitUserData(f,
                Or(Get(rr, s_fbp), Or(Get(body, s_fbp),
                   Or(pickCookieLike(fields, s_fbp), pickCookieLike(rr, s_fbp)))),
                reconstructFBCSubmit(
                   Or(Get(rr, s_fbc), Or(Get(body, s_fbc),
                      Or(pickCookieLike(fields, s_fbc), pickCookieLike(rr, s_fbc)))),
                   body, rr, req),
                req)))

\* the event of the SubmitApplication handler (generic applicant scan)
SubmitApplicationEvent(body, req, env) ==
    SubmitEventFrom(body,
                    Or(Get(body, s_rawRequest), Obj(<<>>)),
                    Or(Get(body, s_fields), Or(body, Obj(<<>>))),
                    FinalFields(extractApplicant(Or(Get(body, s_rawRequest), Obj(<<>>)))),
                    req, env)

EmailKeys == <<s_email, s_q3_email, s_q3_email_email, s_client_email, s_Email>>

PhoneKeys == <<s_phone, s_q4_phone, s_q4_phone_full, s_phoneNumber, s_phoneNumber_full, s_mobile>>

FirstNameKeys == <<s_first_name, s_firstname, s_first, s_q1_name_first, s_name_first>>

LastNameKeys == <<s_last_name, s_lastname, s_last, s_q1_name_last, s_name_last>>

\* the event of the first /api/meta-capi.js (flat field names, no pruning,
\* source URL from the Referer header or the form id)
LeadFormEvent(body, req, env) ==
    LET email == pick(body, EmailKeys)
        phone == pick(body, PhoneKeys)
        first_name == pick(body, FirstNameKeys)
        last_name == pick(body, LastNameKeys)
        formId == pick(body, <<s_formID, s_formId>>)
        event_source_url ==
            Or(req.referer, IF Truthy(formId) THEN Str(s_url_jotform \o formId.s)
                            ELSE Str(s_url_lead_form))
        payload == Obj(<<Prop(s_data, Arr(<<Obj(<<
             Prop(s_event_name, Str(s_Lead)),
             Prop(s_event_time, now),
             Prop(s_action_source, Str(s_website)),
             Prop(s_event_source_url, event_source_url),
             Prop(s_user_data, Obj(<<
                 Prop(s_em, HashedList(email)),
                 Prop(s_ph, HashedList(phone)),
                 Prop(s_fn, sha256(first_name)),
                 Prop(s_ln, sha256(last_name)),
                 Prop(s_client_ip_address, ClientIp(req)),
                 Prop(s_client_user_agent, req.ua)>>)),
             Prop(s_custom_data, Obj(<<Prop(s_source, Str(s_jotform_webhook))>>))>>)>>))>>
             \o TestEventCode(env))
    IN  [email |-> email, phones |-> <<phone>>, first_name |-> first_name,
         last_name |-> last_name, db |-> Undef, eventId |-> Undef,
         payload |-> payload,
         logsBefore |-> <<body>>,
         logsAfter |-> <<>>]

(***************************************************************************)
(* The requests of the model                                               *)
(***************************************************************************)
ConvHandlers == {"api/meta-capi-app.js", "api/meta-capi.js#1", "api/meta-capi.js#2",
                 "unnamed/part_003", "unnamed/part_004"}

LogHandlers == {"api/cf/log.js#1", "api/cf/log.js#2",
                "unnamed/part_000", "unnamed/part_001", "unnamed/part_002"}

\* the two handlers of api/send.js
SendHandlers == {"api/send.js#1", "api/send.js#2"}

Handlers == ConvHandlers \cup LogHandlers \cup SendHandlers

Methods == {"GET", "HEAD", "OPTIONS", "POST", "PUT", "DELETE"}

\* the most top-level entries (parts) of a body
MaxFields == 2

\* the most entries of a rawRequest document
MaxRaw == 2

\* the most entries of a multipart submission, parts and rawRequest together
MaxEntries == 3

V_email == <<" ","A","@","b",".","c">>

V_email2 == <<"C","@","d",".","e">>

V_blank == <<" ">>

V_name == <<"A","l"," ","B","o">>

V_first == <<"A","l">>

V_last == <<"B","o">>

V_phone == <<"5","5","5","-","1","2","3","4">>

V_phone2 == <<"5","5","5","-","9","9","9","9">>

V_dob == <<"1","9","9","0","-","5","-","4">>

V_browserId == <<"b","1">>

V_internalId == <<"i","9">>

V_fbp == <<"p","1">>

V_fbc == <<"f","b",".","1",".","5",".","Q">>

V_formId == <<"7","7">>

V_parent == <<"h","t","t","p","s",":","/","/","x",".","i","o","/","?","f","b","c","l","i","d","=","Z">>

\* the PII values a submission of the model can carry
PIIStrings == {V_email, V_email2, V_name, V_first, V_last, V_phone, V_phone2, V_dob}

K_q32_event_id == <<"q","3","2","_","e","v","e","n","t","_","i","d">>

K_q8_dateOf == <<"q","8","_","d","a","t","e","O","f">>

K_q5_name == <<"q","5","_","n","a","m","e">>

K_q6_phone == <<"q","6","_","p","h","o","n","e">>

K_q9_mail == <<"q","9","_","m","a","i","l">>

\* the top-level entries a request to handler h is built from
FieldPool(h) ==
    CASE h = "api/meta-capi-app.js" ->
            {Prop(s_name, Str(V_name)), Prop(s_q3_email, Str(V_email)), Prop(s_email, Str(V_blank)),
             Prop(K_q32_event_id, Str(V_browserId))}
      [] h = "unnamed/part_004" ->
            {Prop(s_email, Str(V_blank)), Prop(s_q3_email, Str(V_email)), Prop(s_phone, Str(V_phone)),
             Prop(s_first_name, Str(V_first)), Prop(s_last, Str(V_last)), Prop(s_formID, Str(V_formId))}
      [] h \in LogHandlers -> {Prop(s_email, Str(V_email))}
      [] OTHER ->
            {Prop(s_fbp, Str(V_fbp)), Prop(K_q32_event_id, Str(V_browserId)),
             Prop(s_parentURL, Str(V_parent)), Prop(s_fbc, Str(V_fbc))}

\* the entries a rawRequest document sent to handler h is built from
RawPool(h) ==
    CASE h = "api/meta-capi-app.js" ->
            {Prop(s_event_id, Str(V_internalId)), Prop(K_q32_event_id, Str(V_browserId)),
             Prop(s_mobile18, Str(V_phone)), Prop(s_dateOf, Str(V_dob))}
      [] h \in {"api/meta-capi.js#1", "api/meta-capi.js#2"} ->
            {Prop(s_q27_whatsYour27, Str(V_email)),
             Prop(s_q24_whatsYour24, Obj(<<Prop(s_first, Str(V_first)), Prop(s_last, Str(V_last))>>)),
             Prop(s_q25_whatsYour25, Obj(<<Prop(s_full, Str(V_phone))>>)),
             Prop(s_q26_whatsYour26, Obj(<<Prop(s_full, Str(V_phone2))>>)),
             Prop(s_event_id, Str(V_internalId)),
             Prop(s_answers, Obj(<<Prop(<<"3","2">>,
                 Obj(<<Prop(s_name, Str(s_event_id)), Prop(s_answer, Str(V_browserId))>>))>>))}
      [] h = "unnamed/part_003" ->
            {Prop(K_q9_mail, Str(V_email)),
             Prop(K_q5_name, Str(V_name)),
             Prop(K_q6_phone, Obj(<<Prop(s_full, Str(V_phone))>>)),
             Prop(K_q8_dateOf, Str(V_dob)),
             Prop(s_event_id, Str(V_internalId)),
             Prop(s_answers, Obj(<<Prop(<<"3">>,
                 Obj(<<Prop(s_name, Str(s_email)), Prop(s_answer, Str(V_email2))>>))>>))}
      [] OTHER -> {}

RECURSIVE Arrangements(_, _)
\* the sequences of at most n distinct elements of S
Arrangements(S, n) ==
    IF n = 0 THEN {<<>>}
    ELSE {<<>>} \cup UNION {{<<e>> \o s : s \in Arrangements(S \ {e}, n - 1)} : e \in S}

Request(m, ct, jf, f, rf, r, ref) ==
    [method |-> m, ct |-> ct, jsonForm |-> jf, fields |-> f, rrForm |-> rf, rr |-> r,
     query |-> Obj(<<>>), referer |-> ref, xff |-> Str(<<"1",".","2",".","3",".","4",","," ","5",".","6",".","7",".","8">>), ua |-> Str(<<"U","A">>)]

Referers == {Undef, Str(V_parent)}

\* the POST requests to handler h: multipart bodies with and without a
\* rawRequest part, JSON and URL-encoded bodies, JSON bodies that are
\* empty, null or not JSON at all, and bodies of an undeclared type
\* (text/plain) that hold a JSON document, key=value pairs, nothing, null
\* or text that is neither
PostRequests(h) ==
    {Request("POST", "multipart/form-data", "object", fr[1], "object", fr[2], Undef) :
        fr \in {x \in Arrangements(FieldPool(h), MaxFields) \X Arrangements(RawPool(h), MaxRaw) :
                    Len(x[1]) + Len(x[2]) <= MaxEntries}}
    \cup {Request("POST", "multipart/form-data", "object", f, rf, <<>>, Undef) :
        f \in Arrangements(FieldPool(h), MaxFields), rf \in {"absent", "malformed"}}
    \cup {Request("POST", ct, "object", f, "absent", <<>>, ref) :
        ct \in {"application/json", "application/x-www-form-urlencoded"},
        f \in Arrangements(FieldPool(h), MaxFields), ref \in Referers}
    \cup {Request("POST", "application/json", jf, <<>>, "absent", <<>>, Undef) :
        jf \in {"empty", "null", "malformed"}}
    \cup {Request("POST", "text/plain", jf, f, "absent", <<>>, Undef) :
        jf \in {"object", "pairs"}, f \in Arrangements(FieldPool(h), MaxFields)}
    \cup {Request("POST", "text/plain", jf, <<>>, "absent", <<>>, Undef) :
        jf \in {"empty", "null", "malformed"}}

\* the requests with another method: they carry a body all the same
OtherRequests(h) ==
    {Request(m, "application/json", "object", f, "absent", <<>>, Undef) :
        m \in Methods \ {"POST"}, f \in Arrangements(FieldPool(h), 1)}

\* the requests to a logging endpoint: any method, a well-formed body
LogRequests(h) ==
    {Request(m, ct, "object", f, "absent", <<>>, Undef) :
        m \in Methods, ct \in {"application/json", "application/x-www-form-urlencoded"},
        f \in Arrangements(FieldPool(h), 1)}

s_token == <<"t","o","k","e","n">>

s_to == <<"t","o">>

s_from == <<"f","r","o","m">>

s_subject == <<"s","u","b","j","e","c","t">>

s_text == <<"t","e","x","t">>

s_messageId == <<"m","e","s","s","a","g","e","I","d">>

V_bridgeToken == <<"X","Y","Z">>

\* the token query parameter: none, empty, the configured one, the
\* configured one after a blank, another one
Tokens == {Undef, Str(<<>>), Str(V_bridgeToken), Str(<<" ">> \o V_bridgeToken), Str(<<"b","a","d">>)}

\* the values of to, from, subject and text in a body sent to the relay;
\* Undef stands for a key the body does not have
MailValues(key) ==
    CASE key = s_to -> {Undef, Str(<<>>), Str(<<" ">>), Str(<<"t","@","x"," ">>)}
      [] key = s_from -> {Undef, Str(<<"f","@","x">>)}
      [] key = s_subject -> {Undef, Str(<<>>), Str(<<"S">>)}
      [] key = s_text -> {Undef, Null, Str(<<"T">>)}

\* the entries of a body with the given values
MailFields(to, from, subject, text) ==
    SelectSeq(<<Prop(s_to, to), Prop(s_from, from), Prop(s_subject, subject), Prop(s_text, text)>>,
              LAMBDA e : e.v # Undef)

SendRequest(m, ct, jf, f, token) ==
    [Request(m, ct, jf, f, "absent", <<>>, Undef)
        EXCEPT !.query = Obj(IF token = Undef THEN <<>> ELSE <<Prop(s_token, token)>>)]

\* the requests to the email relay: a POST with a JSON body (parsed by the
\* platform) or a text body (handed over as a string) that holds a JSON
\* document, null, or text that is not JSON, or with no body; a request
\* with another method
SendRequests ==
    {SendRequest("POST", ct, "object", MailFields(to, from, subject, text), token) :
        ct \in {"application/json", "text/plain"}, token \in Tokens,
        to \in MailValues(s_to), from \in MailValues(s_from),
        subject \in MailValues(s_subject), text \in MailValues(s_text)}
    \cup {SendRequest("POST", "application/json", jf, <<>>, token) :
            jf \in {"empty", "null"}, token \in Tokens}
    \cup {SendRequest("POST", "text/plain", jf, <<>>, token) :
            jf \in {"null", "malformed"}, token \in Tokens}
    \cup {SendRequest(m, "application/json", "empty", <<>>, token) :
            m \in Methods \ {"POST"}, token \in Tokens}

RequestsOf(h) ==
    IF h \in LogHandlers THEN LogRequests(h)
    ELSE IF h \in SendHandlers THEN SendRequests
    ELSE PostRequests(h) \cup OtherRequests(h)

\* process.env: each variable is unset or set; the test code is looked at
\* only by a handler that found the other two
Envs ==
    {e \in [META_PIXEL_ID : {Undef, Str(<<"7">>)},
            META_ACCESS_TOKEN : {Undef, Str(<<"k">>)},
            META_TEST_EVENT_CODE : {Undef, Str(<<"T","1">>)},
            BRIDGE_TOKEN : {Undef}] :
        e.META_TEST_EVENT_CODE # Undef => (e.META_PIXEL_ID # Undef /\ e.META_ACCESS_TOKEN # Undef)}

\* process.env of the email relay: BRIDGE_TOKEN is unset, empty or set
SendEnvs ==
    [META_PIXEL_ID : {Undef}, META_ACCESS_TOKEN : {Undef}, META_TEST_EVENT_CODE : {Undef},
     BRIDGE_TOKEN : {Undef, Str(<<>>), Str(V_bridgeToken)}]

(***************************************************************************)
(* State                                                                   *)
(***************************************************************************)
VARIABLES
    handler,    \* the handler the request is routed to
    req,        \* the request
    env,        \* process.env
    pc,         \* "received", "readBody", "awaitFetch", "awaitSend" or "responded"
    bodyRead,   \* whether the handler has read the request body
    extracted,  \* the applicant fields the handler extracted
    outbound,   \* the calls issued to the ingestion endpoint
    remote,     \* what the ingestion endpoint answered
    caught,     \* the messages of the exceptions caught at the top level
    responses,  \* the responses sent
    logs,       \* the values printed by console.log / console.error
    mails,      \* the messages handed to transporter.sendMail
    smtp,       \* what the mail transport did with the message
    wire,       \* a multipart request as sent: its content-type header and its raw body
    fieldMap,   \* the flat field map the body reader built from it
    arg,        \* the value handed to a helper function looked at on its own
    result,     \* what the helper returned for it
    app         \* the state of the watermarking app (src/App.js)

vars == <<handler, req, env, pc, bodyRead, extracted, outbound, remote, caught, responses, logs,
          mails, smtp, wire, fieldMap, arg, result, app>>

NotExtracted ==
    [done |-> FALSE, email |-> Undef, phones |-> <<>>, first_name |-> Undef,
     last_name |-> Undef, db |-> Undef, eventId |-> Undef]

NoRemote == [kind |-> "none", ok |-> FALSE, json |-> Undef]

\* what the ingestion endpoint can do with a call: accept it, reject it
\* with an error document, answer with a body that is not JSON, or not
\* answer at all
RemoteOutcomes ==
    {[kind |-> "response", ok |-> TRUE,
      json |-> Obj(<<Prop(<<"e","v","e","n","t","s","_","r","e","c","e","i","v","e","d">>, Num(<<"1">>))>>)],
     [kind |-> "response", ok |-> FALSE,
      json |-> Obj(<<Prop(<<"e","r","r","o","r">>, Obj(<<Prop(<<"m","e","s","s","a","g","e">>, Str(<<"I","n","v","a","l","i","d"," ","p","a","r","a","m","e","t","e","r">>))>>))>>)]}
    \cup {[kind |-> "not-json", ok |-> ok, json |-> Undef] : ok \in BOOLEAN}
    \cup {[kind |-> "network-error", ok |-> FALSE, json |-> Undef]}

\* the body is looked at as already split into its parts
NoWire == [ct |-> <<>>, raw |-> <<>>, parts |-> <<>>]

\* no helper is looked at on its own, and the watermarking app is not open
NoCall == [fn |-> "none"]

NoApp == [open |-> FALSE]

\* the helper has not returned yet
NotCalled == [returned |-> FALSE]

Returned(v) == [returned |-> TRUE, value |-> v]

\* the mail transport has not been called
NoSmtp == [kind |-> "none", messageId |-> Undef, message |-> <<>>]

Init ==
    /\ handler \in Handlers
    /\ req \in RequestsOf(handler)
    /\ env \in (IF handler \in SendHandlers THEN SendEnvs ELSE Envs)
    /\ pc = "received"
    /\ bodyRead = FALSE
    /\ extracted = NotExtracted
    /\ outbound = <<>>
    /\ remote = NoRemote
    /\ caught = <<>>
    /\ responses = <<>>
    /\ logs = <<>>
    /\ mails = <<>>
    /\ smtp = NoSmtp
    /\ wire = NoWire
    /\ fieldMap = Undef
    /\ arg = NoCall
    /\ result = NotCalled
    /\ app = NoApp

\* res.status(status).json(body) / .send(body) / .end()
Response(status, body) == [status |-> status, body |-> body]

\* res.status(...).json({ ok: false, error })
ErrorBody(msg) == Obj(<<Prop(<<"o","k">>, Bool(FALSE)), Prop(<<"e","r","r","o","r">>, Str(msg))>>)

(***************************************************************************)
(* The conversion-event handlers                                           *)
(***************************************************************************)
\* a method check without the pre-flight case: OPTIONS is answered like any
\* other method that is not POST
MethodCheckNoPreflight ==
    /\ handler \in ConvHandlers
    /\ pc = "received"
    /\ IF req.method # "POST"
       THEN /\ responses' = Append(responses, Response(405, ErrorBody(<<"M","e","t","h","o","d"," ","n","o","t"," ","a","l","l","o","w","e","d">>)))
            /\ pc' = "responded"
       ELSE /\ pc' = "readBody"
            /\ UNCHANGED responses
    /\ UNCHANGED <<arg, result, app, wire, fieldMap, mails, smtp, handler, req, env, bodyRead, extracted, outbound, remote, caught, logs>>

\* if (req.method === "OPTIONS") return res.status(204).end();
\* if (req.method !== "POST") return res.status(405).json(...)
MethodCheck ==
    /\ handler \in ConvHandlers
    /\ pc = "received"
    /\ IF req.method = "OPTIONS"
       THEN /\ responses' = Append(responses, Response(204, Undef))
            /\ pc' = "responded"
       ELSE IF req.method # "POST"
       THEN /\ responses' = Append(responses, Response(405, ErrorBody(<<"M","e","t","h","o","d"," ","n","o","t"," ","a","l","l","o","w","e","d">>)))
            /\ pc' = "responded"
       ELSE /\ pc' = "readBody"
            /\ UNCHANGED responses
    /\ UNCHANGED <<arg, result, app, wire, fieldMap, mails, smtp, handler, req, env, bodyRead, extracted, outbound, remote, caught, logs>>

\* a catch block that answers with a fixed text instead of e.message
CatchGeneric(msg, logged) ==
    /\ caught' = Append(caught, msg)
    /\ logs' = IF logged THEN Append(logs, Str(msg)) ELSE logs
    /\ responses' = Append(responses,
                           Response(500, ErrorBody(<<"U","n","k","n","o","w","n"," ","e","r","r","o","r">>)))
    /\ pc' = "responded"

\* catch (e) { console.error(..., e); return res.status(500).json({ ok: false,
\* error: e?.message || "Unknown error" }) }
Catch(msg, logged) ==
    /\ caught' = Append(caught, msg)
    /\ logs' = IF logged THEN Append(logs, Str(msg)) ELSE logs
    /\ responses' = Append(responses,
                           Response(500, ErrorBody(Or(Str(msg), Str(<<"U","n","k","n","o","w","n"," ","e","r","r","o","r">>)).s)))
    /\ pc' = "responded"

\* from the event built to the call of fetch: the configuration check (in
\* the handlers that have one), the diagnostic lines, the outbound call
Forward(ev, checksConfig, missingMsg, testInUrl) ==
    /\ extracted' = [done |-> TRUE, email |-> ev.email, phones |-> ev.phones,
                     first_name |-> ev.first_name, last_name |-> ev.last_name,
                     db |-> ev.db, eventId |-> ev.eventId]
    /\ IF checksConfig /\ (~Truthy(env.META_PIXEL_ID) \/ ~Truthy(env.META_ACCESS_TOKEN))
       THEN /\ logs' = logs \o ev.logsBefore
            /\ responses' = Append(responses, Response(500, ErrorBody(missingMsg)))
            /\ pc' = "responded"
            /\ UNCHANGED outbound
       ELSE /\ logs' = logs \o ev.logsBefore \o ev.logsAfter
            /\ outbound' = Append(outbound,
                   [pixelId |-> JSString(env.META_PIXEL_ID),
                    access_token |-> JSString(env.META_ACCESS_TOKEN),
                    test_event_code |-> IF testInUrl /\ Truthy(env.META_TEST_EVENT_CODE)
                                        THEN env.META_TEST_EVENT_CODE ELSE Undef,
                    body |-> Stringify(ev.payload)])
            /\ pc' = "awaitFetch"
            /\ UNCHANGED responses
    /\ UNCHANGED caught

MissingEnvVars == <<"M","i","s","s","i","n","g"," ","M","E","T","A","_","P","I","X","E","L","_","I","D"," ","o","r"," ","M","E","T","A","_","A","C","C","E","S","S","_","T","O","K","E","N"," ","e","n","v"," ","v","a","r","s">>

MissingEnv == <<"M","i","s","s","i","n","g"," ","M","E","T","A","_","P","I","X","E","L","_","I","D"," ","o","r"," ","M","E","T","A","_","A","C","C","E","S","S","_","T","O","K","E","N">>

\* module.exports of api/meta-capi-app.js, from the body read to the fetch
MetaCapiApp ==
    /\ handler = "api/meta-capi-app.js"
    /\ pc = "readBody"
    /\ bodyRead' = TRUE
    /\ LET body == readBody(req)
       IN  IF IsThrow(body) THEN Catch(body.s, TRUE) /\ UNCHANGED <<extracted, outbound>>
           ELSE IF IsNullish(body) THEN Catch(TypeErrorMsg, TRUE) /\ UNCHANGED <<extracted, outbound>>
           ELSE Forward(MetaCapiAppEvent(body, req, env), TRUE, MissingEnvVars, FALSE)
    /\ UNCHANGED <<arg, result, app, wire, fieldMap, mails, smtp, handler, req, env, remote>>

\* module.exports of api/meta-capi.js (first handler)
MetaCapi ==
    /\ handler = "api/meta-capi.js#1"
    /\ pc = "readBody"
    /\ bodyRead' = TRUE
    /\ LET body == readBodyDebug(req)
       IN  IF IsThrow(body) THEN Catch(body.s, TRUE) /\ UNCHANGED <<extracted, outbound>>
           ELSE Forward(MetaCapiEvent(body, req, env), TRUE, MissingEnvVars, FALSE)
    /\ UNCHANGED <<arg, result, app, wire, fieldMap, mails, smtp, handler, req, env, remote>>

\* module.exports of api/meta-capi.js (second handler)
MetaCapiRaw ==
    /\ handler = "api/meta-capi.js#2"
    /\ pc = "readBody"
    /\ bodyRead' = TRUE
    /\ LET body == readBodyRegex(req)
       IN  IF IsThrow(body) THEN Catch(body.s, TRUE) /\ UNCHANGED <<extracted, outbound>>
           ELSE IF IsNullish(body) THEN Catch(TypeErrorMsg, TRUE) /\ UNCHANGED <<extracted, outbound>>
           ELSE Forward(MetaCapiRawEvent(body, req, env), TRUE, MissingEnvVars, FALSE)
    /\ UNCHANGED <<arg, result, app, wire, fieldMap, mails, smtp, handler, req, env, remote>>

\* module.exports of the SubmitApplication handler
SubmitApplication ==
    /\ handler = "unnamed/part_003"
    /\ pc = "readBody"
    /\ bodyRead' = TRUE
    /\ LET body == readBodySubmit(req)
       IN  IF IsThrow(body) THEN Catch(body.s, TRUE) /\ UNCHANGED <<extracted, outbound>>
           ELSE IF IsNullish(body) THEN Catch(TypeErrorMsg, TRUE) /\ UNCHANGED <<extracted, outbound>>
           ELSE Forward(SubmitApplicationEvent(body, req, env), TRUE, MissingEnv, TRUE)
    /\ UNCHANGED <<arg, result, app, wire, fieldMap, mails, smtp, handler, req, env, remote>>

\* module.exports of the first /api/meta-capi.js: no configuration check
LeadForm ==
    /\ handler = "unnamed/part_004"
    /\ pc = "readBody"
    /\ bodyRead' = TRUE
    /\ LET body == readBodyFlat(req)
       IN  IF IsThrow(body) THEN Catch(body.s, FALSE) /\ UNCHANGED <<extracted, outbound>>
           ELSE Forward(LeadFormEvent(body, req, env), FALSE, MissingEnvVars, FALSE)
    /\ UNCHANGED <<arg, result, app, wire, fieldMap, mails, smtp, handler, req, env, remote>>

\* the handlers that print the answer of the ingestion endpoint
LogsAnswer == ConvHandlers \ {"unnamed/part_004"}

\* a fetch step that calls the endpoint again when the call fails or is
\* answered not ok
FetchSettlesRetry ==
    /\ pc = "awaitFetch"
    /\ \E o \in RemoteOutcomes :
        /\ remote' = o
        /\ IF ~o.ok /\ Len(outbound) < 2
           THEN /\ outbound' = Append(outbound, outbound[1])
                /\ UNCHANGED <<pc, responses, caught, logs>>
           ELSE IF o.kind = "network-error" THEN Catch(FetchFailedMsg, handler \in LogsAnswer) /\ UNCHANGED outbound
           ELSE IF o.kind = "not-json" THEN Catch(SyntaxErrorMsg, handler \in LogsAnswer) /\ UNCHANGED outbound
           ELSE /\ logs' = IF handler \in LogsAnswer THEN Append(logs, o.json) ELSE logs
                /\ responses' = Append(responses,
                       Response(IF o.ok THEN 200 ELSE 500,
                                Obj(<<Prop(<<"o","k">>, Bool(o.ok)), Prop(<<"m","e","t","a">>, o.json)>>)))
                /\ pc' = "responded"
                /\ UNCHANGED <<caught, outbound>>
    /\ UNCHANGED <<arg, result, app, wire, fieldMap, mails, smtp, handler, req, env, bodyRead, extracted>>

\* a fetch step that answers 200 whatever the endpoint answered
FetchSettlesAlwaysOk ==
    /\ pc = "awaitFetch"
    /\ \E o \in RemoteOutcomes :
        /\ remote' = o
        /\ IF o.kind = "network-error" THEN Catch(FetchFailedMsg, handler \in LogsAnswer)
           ELSE IF o.kind = "not-json" THEN Catch(SyntaxErrorMsg, handler \in LogsAnswer)
           ELSE /\ logs' = IF handler \in LogsAnswer THEN Append(logs, o.json) ELSE logs
                /\ responses' = Append(responses,
                       Response(200, Obj(<<Prop(<<"o","k">>, Bool(TRUE)), Prop(<<"m","e","t","a">>, o.json)>>)))
                /\ pc' = "responded"
                /\ UNCHANGED caught
    /\ UNCHANGED <<arg, result, app, wire, fieldMap, mails, smtp, handler, req, env, bodyRead, extracted, outbound>>

\* const fb = await fetch(...); const json = await fb.json();
\* return res.status(fb.ok ? 200 : 500).json({ ok: fb.ok, meta: json })
FetchSettles ==
    /\ pc = "awaitFetch"
    /\ \E o \in RemoteOutcomes :
        /\ remote' = o
        /\ IF o.kind = "network-error" THEN Catch(FetchFailedMsg, handler \in LogsAnswer)
           ELSE IF o.kind = "not-json" THEN Catch(SyntaxErrorMsg, handler \in LogsAnswer)
           ELSE /\ logs' = IF handler \in LogsAnswer THEN Append(logs, o.json) ELSE logs
                /\ responses' = Append(responses,
                       Response(IF o.ok THEN 200 ELSE 500,
                                Obj(<<Prop(<<"o","k">>, Bool(o.ok)), Prop(<<"m","e","t","a">>, o.json)>>)))
                /\ pc' = "responded"
                /\ UNCHANGED caught
    /\ UNCHANGED <<arg, result, app, wire, fieldMap, mails, smtp, handler, req, env, bodyRead, extracted, outbound>>

(***************************************************************************)
(* The ClickFunnels logging endpoint /api/cf/log.js and its variants       *)
(***************************************************************************)
\* req.headers as printed
Headers(r) == Obj(<<Prop(s_referer, r.referer), Prop(<<"x","-","f","o","r","w","a","r","d","e","d","-","f","o","r">>, r.xff), Prop(<<"u","s","e","r","-","a","g","e","n","t">>, r.ua)>>)

\* req.body as the platform parsed it
ParsedBody(r) == Obj(r.fields)

\* typeof req.body === 'string' ? req.body : JSON.stringify(req.body || {})
BodyText(r) == JsonText(Stringify(ParsedBody(r)).p)

OkTrue == Obj(<<Prop(<<"o","k">>, Bool(TRUE))>>)

\* handler of api/cf/log.js (first): GET and HEAD are answered 200, POST is
\* logged, any other method is answered 405 with an Allow header
CfLogAllow ==
    /\ handler = "api/cf/log.js#1"
    /\ pc = "received"
    /\ CASE req.method = "GET" ->
              /\ responses' = Append(responses, Response(200, Str(<<"O","K">>)))
              /\ UNCHANGED <<bodyRead, logs>>
         [] req.method = "HEAD" ->
              /\ responses' = Append(responses, Response(200, Undef))
              /\ UNCHANGED <<bodyRead, logs>>
         [] req.method = "POST" ->
              /\ bodyRead' = TRUE
              /\ logs' = Append(logs, ParsedBody(req))
              /\ responses' = Append(responses, Response(200, Obj(<<Prop(<<"r","e","c","e","i","v","e","d">>, Bool(TRUE))>>)))
         [] OTHER ->
              /\ responses' = Append(responses, Response(405, Str(<<"M","e","t","h","o","d"," ","N","o","t"," ","A","l","l","o","w","e","d">>)))
              /\ UNCHANGED <<bodyRead, logs>>
    /\ pc' = "responded"
    /\ UNCHANGED <<arg, result, app, wire, fieldMap, mails, smtp, handler, req, env, extracted, outbound, remote, caught>>

\* handler of api/cf/log.js (second): every request is logged and answered 200
CfLogAny ==
    /\ handler = "api/cf/log.js#2"
    /\ pc = "received"
    /\ bodyRead' = TRUE
    /\ logs' = logs \o <<Headers(req), BodyText(req)>>
    /\ responses' = Append(responses, Response(200, OkTrue))
    /\ pc' = "responded"
    /\ UNCHANGED <<arg, result, app, wire, fieldMap, mails, smtp, handler, req, env, extracted, outbound, remote, caught>>

\* handler of the variant that answers every non-POST request 200 'ok' and
\* logs req.body of a POST
CfLogProbe ==
    /\ handler = "unnamed/part_000"
    /\ pc = "received"
    /\ IF req.method # "POST"
       THEN /\ responses' = Append(responses, Response(200, Str(<<"o","k">>)))
            /\ UNCHANGED <<bodyRead, logs>>
       ELSE /\ bodyRead' = TRUE
            /\ logs' = logs \o <<Headers(req), BodyText(req)>>
            /\ responses' = Append(responses, Response(200, OkTrue))
    /\ pc' = "responded"
    /\ UNCHANGED <<arg, result, app, wire, fieldMap, mails, smtp, handler, req, env, extracted, outbound, remote, caught>>

\* the variants that stream the body of a POST: the method check
CfLogStream ==
    /\ handler \in {"unnamed/part_001", "unnamed/part_002"}
    /\ pc = "received"
    /\ IF req.method # "POST"
       THEN /\ responses' = Append(responses, Response(200, Str(<<"o","k">>)))
            /\ pc' = "responded"
       ELSE /\ pc' = "readBody"
            /\ UNCHANGED responses
    /\ UNCHANGED <<arg, result, app, wire, fieldMap, mails, smtp, handler, req, env, bodyRead, extracted, outbound, remote, caught, logs>>

\* the variants that stream the body of a POST: the body is read, parsed as
\* JSON (or, in the last variant, as URL-encoded pairs; else kept as text),
\* logged with the headers, and answered 200
CfLogStreamBody ==
    /\ handler \in {"unnamed/part_001", "unnamed/part_002"}
    /\ pc = "readBody"
    /\ bodyRead' = TRUE
    /\ logs' = logs \o <<Headers(req),
                         IF req.ct = "application/json" \/ handler = "unnamed/part_002"
                         THEN ParsedBody(req) ELSE BodyText(req)>>
    /\ responses' = Append(responses, Response(200, OkTrue))
    /\ pc' = "responded"
    /\ UNCHANGED <<arg, result, app, wire, fieldMap, mails, smtp, handler, req, env, extracted, outbound, remote, caught>>

(***************************************************************************)
(* The email relay /api/send                                               *)
(***************************************************************************)
\* req.body as the platform hands it over: the parsed document of a JSON
\* body, the text of a text body, undefined when there is none
SendBody(r) ==
    CASE r.jsonForm = "empty" -> Undef
      [] r.ct = "application/json" -> IF r.jsonForm = "null" THEN Null ELSE Obj(r.fields)
      [] r.jsonForm = "object" -> JsonText(r.fields)
      [] r.jsonForm = "null" -> Str(<<"n","u","l","l">>)
      [] OTHER -> Str(<<"{">>)

\* if (typeof body === 'string') { try { body = JSON.parse(body) } catch { body = {} } }
ParsedIfString(body) ==
    CASE body.t = "jsontext" -> Obj(body.p)
      [] body.t = "string" -> IF body.s = <<"n","u","l","l">> THEN Null ELSE Obj(<<>>)
      [] OTHER -> body

\* String(body?.key || '').trim()
TrimmedField(body, key) == Str(Trim(JSString(Or(Get(body, key), Str(<<>>)))))

\* the message of the first handler: const { to, from, subject, text } = req.body || {}
MessageOf(r) ==
    LET body == Or(SendBody(r), Obj(<<>>))
    IN  [from |-> Get(body, s_from), to |-> Get(body, s_to),
         subject |-> Get(body, s_subject), text |-> Get(body, s_text)]

\* the message of the second handler: every field is made a trimmed string
TrimmedMessageOf(r) ==
    LET body == ParsedIfString(SendBody(r))
    IN  [from |-> TrimmedField(body, s_from), to |-> TrimmedField(body, s_to),
         subject |-> TrimmedField(body, s_subject), text |-> TrimmedField(body, s_text)]

\* a token check that lets every request through when BRIDGE_TOKEN is unset
UnauthorizedUnlessUnset(token, e) ==
    Truthy(e.BRIDGE_TOKEN) /\ token # e.BRIDGE_TOKEN

\* !process.env.BRIDGE_TOKEN || token !== process.env.BRIDGE_TOKEN
Unauthorized(token, e) ==
    ~Truthy(e.BRIDGE_TOKEN) \/ token # e.BRIDGE_TOKEN

\* a field check that does not look at the subject
MissingFieldsButSubject(msg) ==
    ~Truthy(msg.to) \/ ~Truthy(msg.from) \/ ~Truthy(msg.text)

\* !to || !from || !subject || !text
MissingFields(msg) ==
    ~Truthy(msg.to) \/ ~Truthy(msg.from) \/ ~Truthy(msg.subject) \/ ~Truthy(msg.text)

Unauthorized401 == Response(401, ErrorBody(<<"u","n","a","u","t","h","o","r","i","z","e","d">>))

MissingFields400 == Response(400, ErrorBody(<<"m","i","s","s","i","n","g"," ","f","i","e","l","d","s">>))

MethodNotAllowed405 == Response(405, ErrorBody(<<"M","e","t","h","o","d"," ","n","o","t"," ","a","l","l","o","w","e","d">>))

\* the answer to a request that gets one before the transport is called
SendAnswers(r) ==
    /\ responses' = Append(responses, r)
    /\ pc' = "responded"
    /\ UNCHANGED mails

\* const info = await transporter.sendMail(msg)
SendMailCalled(msg) ==
    /\ mails' = Append(mails, msg)
    /\ pc' = "awaitSend"
    /\ UNCHANGED responses

\* handler of api/send.js (first): method, token, fields, sendMail
SendRelay ==
    /\ handler = "api/send.js#1"
    /\ pc = "received"
    /\ IF req.method = "OPTIONS" THEN SendAnswers(Response(204, Undef)) /\ UNCHANGED bodyRead
       ELSE IF req.method # "POST" THEN SendAnswers(MethodNotAllowed405) /\ UNCHANGED bodyRead
       ELSE IF Unauthorized(Str(JSString(Or(Get(req.query, s_token), Str(<<>>)))), env)
       THEN SendAnswers(Unauthorized401) /\ UNCHANGED bodyRead
       ELSE /\ bodyRead' = TRUE
            /\ IF MissingFields(MessageOf(req)) THEN SendAnswers(MissingFields400)
               ELSE SendMailCalled(MessageOf(req))
    /\ UNCHANGED <<arg, result, app, wire, fieldMap, handler, req, env, extracted, outbound, remote, caught, logs, smtp>>

\* the second handler with the method looked at before the token
SendBridgeMethodFirst ==
    /\ handler = "api/send.js#2"
    /\ pc = "received"
    /\ IF req.method = "OPTIONS" THEN SendAnswers(Response(204, Undef)) /\ UNCHANGED bodyRead
       ELSE IF req.method = "GET"
       THEN /\ SendAnswers(Response(200, Obj(<<Prop(<<"o","k">>, Bool(TRUE)),
                                                Prop(<<"r","u","n","t","i","m","e">>, Str(<<"n","o","d","e">>)),
                                                Prop(<<"r","e","a","d","y">>, Bool(TRUE))>>)))
            /\ UNCHANGED bodyRead
       ELSE IF req.method # "POST" THEN SendAnswers(MethodNotAllowed405) /\ UNCHANGED bodyRead
       ELSE IF Unauthorized(Str(Trim(JSString(Or(Get(req.query, s_token), Str(<<>>))))), env)
       THEN SendAnswers(Unauthorized401) /\ UNCHANGED bodyRead
       ELSE /\ bodyRead' = TRUE
            /\ IF MissingFields(TrimmedMessageOf(req)) THEN SendAnswers(MissingFields400)
               ELSE SendMailCalled(TrimmedMessageOf(req))
    /\ UNCHANGED <<arg, result, app, wire, fieldMap, handler, req, env, extracted, outbound, remote, caught, logs, smtp>>

\* handler of api/send.js (second): token, health check, method, fields, sendMail
SendBridge ==
    /\ handler = "api/send.js#2"
    /\ pc = "received"
    /\ IF req.method = "OPTIONS" THEN SendAnswers(Response(204, Undef)) /\ UNCHANGED bodyRead
       ELSE IF Unauthorized(Str(Trim(JSString(Or(Get(req.query, s_token), Str(<<>>))))), env)
       THEN SendAnswers(Unauthorized401) /\ UNCHANGED bodyRead
       ELSE IF req.method = "GET"
       THEN /\ SendAnswers(Response(200, Obj(<<Prop(<<"o","k">>, Bool(TRUE)),
                                                Prop(<<"r","u","n","t","i","m","e">>, Str(<<"n","o","d","e">>)),
                                                Prop(<<"r","e","a","d","y">>, Bool(TRUE))>>)))
            /\ UNCHANGED bodyRead
       ELSE IF req.method # "POST" THEN SendAnswers(MethodNotAllowed405) /\ UNCHANGED bodyRead
       ELSE /\ bodyRead' = TRUE
            /\ IF MissingFields(TrimmedMessageOf(req)) THEN SendAnswers(MissingFields400)
               ELSE SendMailCalled(TrimmedMessageOf(req))
    /\ UNCHANGED <<arg, result, app, wire, fieldMap, handler, req, env, extracted, outbound, remote, caught, logs, smtp>>

SmtpRefusedMsg == <<"c","o","n","n","e","c","t"," ","E","C","O","N","N","R","E","F","U","S","E","D">>

\* what the transport can do with a message: accept it and name it, or throw
SmtpOutcomes ==
    {[kind |-> "sent", messageId |-> Str(<<"<","m","1",">">>), message |-> <<>>],
     [kind |-> "throws", messageId |-> Undef, message |-> SmtpRefusedMsg]}

\* a transport step that hands the message over again when sendMail throws
SendMailSettlesRetry ==
    /\ pc = "awaitSend"
    /\ \E o \in SmtpOutcomes :
        /\ smtp' = o
        /\ IF o.kind = "throws" /\ Len(mails) < 2
           THEN /\ mails' = Append(mails, mails[1])
                /\ UNCHANGED <<pc, responses, caught, logs>>
           ELSE IF o.kind = "throws" THEN Catch(o.message, TRUE) /\ UNCHANGED mails
           ELSE /\ responses' = Append(responses,
                       Response(200, Obj(<<Prop(<<"o","k">>, Bool(TRUE)), Prop(s_messageId, o.messageId)>>)))
                /\ pc' = "responded"
                /\ UNCHANGED <<caught, logs, mails>>
    /\ UNCHANGED <<arg, result, app, wire, fieldMap, handler, req, env, bodyRead, extracted, outbound, remote>>

\* return res.status(200).json({ ok: true, messageId: info.messageId }), or
\* catch (e) { console.error('SMTP bridge error:', e?.message || e);
\* return res.status(500).json({ ok: false, error: e?.message || 'unknown' }) }
SendMailSettles ==
    /\ pc = "awaitSend"
    /\ \E o \in SmtpOutcomes :
        /\ smtp' = o
        /\ IF o.kind = "throws" THEN Catch(o.message, TRUE)
           ELSE /\ responses' = Append(responses,
                       Response(200, Obj(<<Prop(<<"o","k">>, Bool(TRUE)), Prop(s_messageId, o.messageId)>>)))
                /\ pc' = "responded"
                /\ UNCHANGED <<caught, logs>>
    /\ UNCHANGED <<arg, result, app, wire, fieldMap, handler, req, env, bodyRead, extracted, outbound, remote, mails>>

Next ==
    \/ MethodCheck
    \/ MetaCapiApp
    \/ MetaCapi
    \/ MetaCapiRaw
    \/ SubmitApplication
    \/ LeadForm
    \/ FetchSettles
    \/ CfLogAllow
    \/ CfLogAny
    \/ CfLogProbe
    \/ CfLogStream
    \/ CfLogStreamBody
    \/ SendRelay
    \/ SendBridge
    \/ SendMailSettles

Spec == Init /\ [][Next]_vars


(***************************************************************************)
(* Multipart decoding, on the text of the request                          *)
(*                                                                         *)
(* The handlers above take a multipart body as already split into its      *)
(* named parts.  Here the splitting itself is modelled, character by       *)
(* character, for the readers that build a flat field map.                 *)
(***************************************************************************)
CRLF == <<"\r", "\n">>

\* sub occurs in s at index i
StartsAt(s, i, sub) ==
    /\ i + Len(sub) - 1 <= Len(s)
    /\ SubSeq(s, i, i + Len(sub) - 1) = sub

\* s.indexOf(sub): the first index of sub in s, or 0
Find(s, sub) ==
    LET hits == {i \in 1..Len(s) : StartsAt(s, i, sub)}
    IN  IF hits = {} THEN 0 ELSE Least(hits)

RECURSIVE Split(_, _)
\* s.split(sep)
Split(s, sep) ==
    IF Find(s, sep) = 0 THEN <<s>>
    ELSE <<SubSeq(s, 1, Find(s, sep) - 1)>>
         \o Split(SubSeq(s, Find(s, sep) + Len(sep), Len(s)), sep)

s_boundaryEq == <<"b","o","u","n","d","a","r","y","=">>

s_nameEqQuote == <<"n","a","m","e","=","\"">>

\* ct.match(/boundary=([^;]+)/i): the text captured, <<>> when there is no match
BoundaryOf(ct) ==
    LET n == Len(s_boundaryEq)
        hits == {i \in 1..Len(ct) : /\ StartsAt(ToLowerCase(ct), i, s_boundaryEq)
                                    /\ i + n <= Len(ct)
                                    /\ ct[i + n] # ";"}
    IN  IF hits = {} THEN <<>>
        ELSE LET start == Least(hits) + n
                 semis == {j \in start..Len(ct) : ct[j] = ";"}
             IN  SubSeq(ct, start, IF semis = {} THEN Len(ct) ELSE Least(semis) - 1)

\* headers.match(/name="([^"]+)"/i): the text captured, <<>> when there is no match
PartName(headers) ==
    LET n == Len(s_nameEqQuote)
        closing(i) == {j \in (i + n + 1)..Len(headers) : headers[j] = "\""}
        hits == {i \in 1..Len(headers) : /\ StartsAt(ToLowerCase(headers), i, s_nameEqQuote)
                                         /\ i + n <= Len(headers)
                                         /\ headers[i + n] # "\""
                                         /\ closing(i) # {}}
    IN  IF hits = {} THEN <<>>
        ELSE SubSeq(headers, Least(hits) + n, Least(closing(Least(hits))) - 1)

\* value.replace(/\r\n--\s*$/, '').replace(/\r\n$/, '')
TrimPartValue(value) ==
    LET hits == {i \in 1..Len(value) :
                    /\ StartsAt(value, i, CRLF \o <<"-", "-">>)
                    /\ \A k \in (i + 4)..Len(value) : value[k] \in WhiteSpace}
        cut == IF hits = {} THEN value ELSE SubSeq(value, 1, Least(hits) - 1)
    IN  IF EndsWith(cut, CRLF) THEN SubSeq(cut, 1, Len(cut) - 2) ELSE cut

\* fields[name] = value
SetField(fields, name, value) ==
    IF \E i \in 1..Len(fields) : fields[i].k = name
    THEN [i \in 1..Len(fields) |-> IF fields[i].k = name THEN Prop(name, value) ELSE fields[i]]
    ELSE Append(fields, Prop(name, value))

RECURSIVE FieldsOfParts(_, _)
\* for (const part of parts) { ... fields[name] = value }
FieldsOfParts(parts, fields) ==
    IF parts = <<>> THEN fields
    ELSE LET part == Head(parts)
             idx == Find(part, CRLF \o CRLF)
         IN  IF part = <<>> \/ part = <<"-", "-">> \o CRLF \/ part = <<"-", "-">> \/ idx = 0
             THEN FieldsOfParts(Tail(parts), fields)
             ELSE IF PartName(SubSeq(part, 1, idx - 1)) = <<>>
             THEN FieldsOfParts(Tail(parts), fields)
             ELSE FieldsOfParts(Tail(parts),
                                SetField(fields, PartName(SubSeq(part, 1, idx - 1)),
                                         Str(TrimPartValue(SubSeq(part, idx + 4, Len(part))))))

\* the fields of the multipart branch of readBody: undefined when the
\* content type declares no boundary (the reader returns { _multipart: raw })
MultipartFields(ct, raw) ==
    IF BoundaryOf(ct) = <<>> THEN Undef
    ELSE Obj(FieldsOfParts(Split(raw, <<"-", "-">> \o BoundaryOf(ct)), <<>>))

\* the field map of the reader of handler h: the first handler of
\* api/meta-capi.js lower-cases the content type before it looks at it
MultipartFieldsOf(h, w) ==
    MultipartFields(IF h = "api/meta-capi.js#1" THEN ToLowerCase(w.ct) ELSE w.ct, w.raw)

\* the most parts of a multipart body
MaxParts == 2

\* the boundary tokens a client declares
BoundaryTokens == {<<"x", "7">>, <<"X", "7">>, <<"-", "-", "q", "'", "Z">>}

\* the named parts a client sends: a plain value, an empty one, one of two lines
PartPool ==
    {[name |-> <<"a">>, value |-> <<"v">>],
     [name |-> <<"b">>, value |-> <<>>],
     [name |-> <<"c">>, value |-> <<"1">> \o CRLF \o <<"2">>]}

\* what follows the closing boundary marker
Closings == {CRLF, <<>>, <<"\n">>, CRLF \o CRLF}

s_multipartBoundary == <<"m","u","l","t","i","p","a","r","t","/","f","o","r","m","-","d","a","t","a",";"," ","b","o","u","n","d","a","r","y","=">>

s_charset == <<";"," ","c","h","a","r","s","e","t","=","u","t","f","-","8">>

s_disposition == <<"C","o","n","t","e","n","t","-","D","i","s","p","o","s","i","t","i","o","n",":"," ","f","o","r","m","-","d","a","t","a",";"," ","n","a","m","e","=","\"">>

s_partContentType == <<"C","o","n","t","e","n","t","-","T","y","p","e",":"," ","t","e","x","t","/","p","l","a","i","n">>

RECURSIVE PartsText(_, _, _)
\* the parts of a body, each after a boundary line
PartsText(token, parts, extraHeaders) ==
    IF parts = <<>> THEN <<>>
    ELSE <<"-", "-">> \o token \o CRLF
         \o s_disposition \o Head(parts).name \o <<"\"">> \o CRLF
         \o (IF extraHeaders THEN s_partContentType \o CRLF ELSE <<>>)
         \o CRLF \o Head(parts).value \o CRLF
         \o PartsText(token, Tail(parts), extraHeaders)

\* a multipart request as a client sends it
Wire(token, quoted, charset, parts, extraHeaders, closing) ==
    [ct |-> s_multipartBoundary
            \o (IF quoted THEN <<"\"">> \o token \o <<"\"">> ELSE token)
            \o (IF charset THEN s_charset ELSE <<>>),
     raw |-> PartsText(token, parts, extraHeaders) \o <<"-", "-">> \o token \o <<"-", "-">> \o closing,
     parts |-> parts]

Wires ==
    {Wire(token, quoted, charset, parts, extraHeaders, closing) :
        token \in BoundaryTokens, quoted \in BOOLEAN, charset \in BOOLEAN,
        parts \in Arrangements(PartPool, MaxParts), extraHeaders \in BOOLEAN,
        closing \in Closings}

\* a multipart request arrives at one of the readers that build a field map
MultipartInit ==
    /\ handler \in {"api/meta-capi-app.js", "api/meta-capi.js#1", "unnamed/part_003"}
    /\ wire \in Wires
    /\ fieldMap = Undef
    /\ req = Request("POST", "multipart/form-data", "object", <<>>, "absent", <<>>, Undef)
    /\ env \in {e \in Envs : Truthy(e.META_PIXEL_ID) /\ Truthy(e.META_ACCESS_TOKEN) /\ ~Truthy(e.META_TEST_EVENT_CODE)}
    /\ pc = "readBody"
    /\ bodyRead = FALSE
    /\ extracted = NotExtracted
    /\ outbound = <<>>
    /\ remote = NoRemote
    /\ caught = <<>>
    /\ responses = <<>>
    /\ logs = <<>>
    /\ mails = <<>>
    /\ smtp = NoSmtp
    /\ arg = NoCall
    /\ result = NotCalled
    /\ app = NoApp

\* readBody, multipart branch: the body is split at the boundary and the
\* named parts are collected
ReadMultipart ==
    /\ wire # NoWire
    /\ ~bodyRead
    /\ bodyRead' = TRUE
    /\ fieldMap' = MultipartFieldsOf(handler, wire)
    /\ UNCHANGED <<arg, result, app, wire, handler, req, env, pc, extracted, outbound, remote,
                   caught, responses, logs, mails, smtp>>

MultipartNext == ReadMultipart

MultipartSpec == MultipartInit /\ [][MultipartNext]_vars

(***************************************************************************)
(* Properties of the conversion-event handlers                             *)
(***************************************************************************)
\* required configuration is missing
ConfigMissing == ~Truthy(env.META_PIXEL_ID) \/ ~Truthy(env.META_ACCESS_TOKEN)

\* the single event of the batch a call carries, and its user_data
SentEvent(call) == Get(call.body, s_data).p[1].v

SentUserData(call) == Get(SentEvent(call), s_user_data)

\* the digest the ingestion endpoint expects for a value
Hashed(v) == Digest(ToLowerCase(Trim(JSString(v))))

\* the phones extracted that have a value
PhonesFound == SelectSeq(extracted.phones, Truthy)

\* some string of v holds the text part
Shows(v, part) == \E str \in StringsIn(v) : Includes(str, part)

\* C1: in every conversion-event handler, a POST request that finds
\* META_PIXEL_ID or META_ACCESS_TOKEN unset issues no outbound call and is
\* answered 500, whatever its body is
C1_MissingConfigAnswers500 ==
    (handler \in ConvHandlers /\ req.method = "POST" /\ ConfigMissing)
        => /\ outbound = <<>>
           /\ pc = "responded" => (Len(responses) = 1 /\ responses[1].status = 500)

\* C2: every PII value of an outbound payload (user_data.em, ph, fn, ln, db)
\* is the SHA-256 digest of the extracted value trimmed and lowercased, and
\* no raw email, phone, name or date of birth shows anywhere in the payload
C2_PayloadCarriesOnlyDigests ==
    \A i \in 1..Len(outbound) :
        LET ud == SentUserData(outbound[i])
        IN  /\ HasKey(ud, s_em) => Get(ud, s_em) = Arr(<<Hashed(extracted.email)>>)
            /\ HasKey(ud, s_ph) =>
                   Get(ud, s_ph) = Arr([j \in 1..Len(PhonesFound) |-> Hashed(PhonesFound[j])])
            /\ HasKey(ud, s_fn) => Get(ud, s_fn) = Hashed(extracted.first_name)
            /\ HasKey(ud, s_ln) => Get(ud, s_ln) = Hashed(extracted.last_name)
            /\ HasKey(ud, s_db) => Get(ud, s_db) = Hashed(extracted.db)
            /\ \A raw \in PIIStrings : ~Shows(outbound[i].body, raw)

\* a call went out for a submission with a phone and an email that is
\* padded and in mixed case
C2_Witness ==
    /\ Len(outbound) = 1
    /\ extracted.email = Str(V_email)
    /\ HasKey(SentUserData(outbound[1]), s_em)
    /\ HasKey(SentUserData(outbound[1]), s_ph)

\* C3: no diagnostic line of a conversion-event handler shows a raw PII
\* value of the submission
C3_LogsShowNoRawPII ==
    handler \in ConvHandlers
        => \A i \in 1..Len(logs) : \A raw \in PIIStrings : ~Shows(logs[i], raw)

\* the values of the hidden event_id fields the browser supplied: a flat
\* field under the exact key or a key ending in "_event_id", or an entry of
\* the raw submission under a key ending in "_event_id" ...
HiddenEventIds ==
    {req.fields[i].v : i \in {j \in 1..Len(req.fields) :
        req.fields[j].k = s_event_id \/ EndsWith(req.fields[j].k, <<"_">> \o s_event_id)}}
    \cup {req.rr[i].v : i \in {j \in 1..Len(req.rr) : EndsWith(req.rr[j].k, <<"_">> \o s_event_id)}}

\* ... and the internal event_id of the form builder on the raw submission
CarriesInternalEventId ==
    req.rrForm = "object" /\ Get(Obj(req.rr), s_event_id) = Str(V_internalId)

\* C4: when a submission carries both the hidden event_id and the form
\* builder's internal one, the outbound event_id is the hidden value,
\* whatever the order of the keys
C4_HiddenEventIdWins ==
    (/\ handler \in ConvHandlers
     /\ req.ct = "multipart/form-data"
     /\ HiddenEventIds # {}
     /\ CarriesInternalEventId
     /\ Len(outbound) > 0)
        => Get(SentEvent(outbound[1]), s_event_id) \in HiddenEventIds

\* whether a value was extracted for the field of a user_data key
Found(key) ==
    CASE key = s_em -> Truthy(extracted.email)
      [] key = s_ph -> Len(PhonesFound) > 0
      [] key = s_fn -> Truthy(extracted.first_name)
      [] key = s_ln -> Truthy(extracted.last_name)
      [] key = s_db -> Truthy(extracted.db)

PIIKeys == {s_em, s_ph, s_fn, s_ln, s_db}

\* a digest, or a non-empty list of digests
IsDigests(v) ==
    \/ v.t = "sha256hex"
    \/ /\ v.t = "array"
       /\ Len(v.p) > 0
       /\ \A j \in 1..Len(v.p) : v.p[j].v.t = "sha256hex"

\* C5: a PII key is in the serialized user_data exactly when a value was
\* extracted for its field, and then it holds digests: never null,
\* undefined or an empty value
C5_KeyPresentIffExtracted ==
    \A i \in 1..Len(outbound) :
        \A key \in PIIKeys :
            /\ HasKey(SentUserData(outbound[i]), key) <=> Found(key)
            /\ HasKey(SentUserData(outbound[i]), key)
                   => IsDigests(Get(SentUserData(outbound[i]), key))

\* a call went out for a submission in which nothing was recognised
C5_Witness ==
    /\ Len(outbound) = 1
    /\ \A key \in PIIKeys : ~Found(key)
    /\ req.fields # <<>>

\* the answer relays the endpoint's document
Relayed(status, ok) ==
    responses = <<Response(status, Obj(<<Prop(<<"o","k">>, Bool(ok)),
                                         Prop(<<"m","e","t","a">>, remote.json)>>))>>

\* C6 as stated: the status is 200 with ok:true exactly when the remote
\* response is ok, and 500 with ok:false otherwise
C6_StatusFollowsRemoteOk ==
    (handler \in ConvHandlers /\ pc = "responded" /\ remote.kind \in {"response", "not-json"})
        => /\ Len(responses) = 1
           /\ responses[1].status = (IF remote.ok THEN 200 ELSE 500)
           /\ Get(responses[1].body, <<"o","k">>) = Bool(remote.ok)

\* C6: when the remote response carries a JSON document, the status is 200
\* with ok:true exactly when the response is ok, else 500 with ok:false, and
\* the document is relayed unchanged; a response whose body is not JSON is
\* answered 500 with ok:false even when it is ok
C6_StatusFollowsRemoteJson ==
    (handler \in ConvHandlers /\ pc = "responded")
        => /\ remote.kind = "response" => Relayed(IF remote.ok THEN 200 ELSE 500, remote.ok)
           /\ remote.kind = "not-json" =>
                  /\ Len(responses) = 1
                  /\ responses[1].status = 500
                  /\ Get(responses[1].body, <<"o","k">>) = Bool(FALSE)

\* the endpoint accepted the event and the handler has answered
C6_Witness ==
    /\ handler \in ConvHandlers
    /\ pc = "responded"
    /\ remote.kind = "response"
    /\ remote.ok
    /\ responses[1].status = 200

\* C7: at most one outbound call is issued; after a network failure or a
\* remote response that is not ok the handler answers 500 and calls no more
C7_SingleAttempt ==
    /\ Len(outbound) <= 1
    /\ (pc = "responded" /\ remote.kind # "none" /\ ~remote.ok)
           => (Len(outbound) = 1 /\ Len(responses) = 1 /\ responses[1].status = 500)

\* the call failed and the handler has answered
C7_Witness ==
    /\ pc = "responded"
    /\ remote.kind = "network-error"
    /\ Len(outbound) = 1

\* as long as a request is not answered no response is out, then exactly
\* one is; an exception caught is answered with one 500 that carries its
\* message
AnsweredOnce ==
    handler \in ConvHandlers
        => /\ Len(responses) = (IF pc = "responded" THEN 1 ELSE 0)
           /\ caught # <<>> =>
                  /\ Len(caught) = 1
                  /\ responses = <<Response(500, ErrorBody(caught[1]))>>

\* how far a request is: received, body being read, call in flight, answered
Stage(p) ==
    CASE p = "received" -> 0
      [] p = "readBody" -> 1
      [] p = "awaitFetch" -> 2
      [] p = "awaitSend" -> 2
      [] p = "responded" -> 3

\* C8: every request to a conversion-event handler receives exactly one
\* response (none before it is answered, one from then on, and every step
\* of a handler is a step of an unanswered request towards its answer), and
\* an exception raised while reading the body, extracting or forwarding is
\* caught and answered with a single 500 whose error field is the message
\* of the exception
C8_OneResponse ==
    /\ []AnsweredOnce
    /\ [][pc # "responded" /\ Stage(pc') > Stage(pc)]_vars

\* a body that is not JSON made the body reader throw
C8_Witness ==
    /\ handler \in ConvHandlers
    /\ req.jsonForm = "malformed"
    /\ caught = <<SyntaxErrorMsg>>
    /\ pc = "responded"

\* C9: in a conversion-event handler OPTIONS is answered 204 and any other
\* method that is not POST 405, and neither reads the body, extracts
\* anything or issues a call
C9_MethodDispatch ==
    (handler \in ConvHandlers /\ req.method # "POST")
        => /\ ~bodyRead
           /\ extracted = NotExtracted
           /\ outbound = <<>>
           /\ pc = "responded" =>
                  /\ Len(responses) = 1
                  /\ responses[1].status = (IF req.method = "OPTIONS" THEN 204 ELSE 405)

\* a pre-flight request has been answered
C9_Witness ==
    /\ handler \in ConvHandlers
    /\ req.method = "OPTIONS"
    /\ pc = "responded"
    /\ responses[1].status = 204

\* C10: the logging endpoint answers every request that is not a POST with
\* 200, whatever its method, and does not read its body
C10_ProbesAnswered200 ==
    (handler \in LogHandlers /\ req.method # "POST" /\ pc = "responded")
        => /\ Len(responses) = 1
           /\ responses[1].status = 200
           /\ ~bodyRead

(***************************************************************************)
(* Properties of the email relay                                           *)
(***************************************************************************)
\* the token query parameter as sent, "" when there is none
QueryToken == JSString(Or(Get(req.query, s_token), Str(<<>>)))

\* BRIDGE_TOKEN is unset (or set to nothing)
BridgeTokenUnset == ~Truthy(env.BRIDGE_TOKEN)

\* the request has been answered with this status and nothing else
AnsweredWith(status) == Len(responses) = 1 /\ responses[1].status = status

\* C11 as stated: a POST to the relay whose token is missing or differs
\* from BRIDGE_TOKEN, or any POST while BRIDGE_TOKEN is unset, is answered
\* 401 and the mail transport is never invoked
C11_BadTokenAnswers401 ==
    (/\ handler \in SendHandlers
     /\ req.method = "POST"
     /\ BridgeTokenUnset \/ Str(QueryToken) # env.BRIDGE_TOKEN)
        => /\ mails = <<>>
           /\ smtp = NoSmtp
           /\ pc = "responded" => AnsweredWith(401)

\* the token the handler compares: the second handler removes the white
\* space around it first
ComparedToken == IF handler = "api/send.js#2" THEN Trim(QueryToken) ELSE QueryToken

\* C11: a POST to the relay whose token is missing or, compared as the
\* handler compares it (the second handler trims it), differs from
\* BRIDGE_TOKEN, or any POST while BRIDGE_TOKEN is unset, is answered 401
\* and the mail transport is never invoked
C11_TokenGuard ==
    (/\ handler \in SendHandlers
     /\ req.method = "POST"
     /\ BridgeTokenUnset \/ Str(ComparedToken) # env.BRIDGE_TOKEN)
        => /\ mails = <<>>
           /\ smtp = NoSmtp
           /\ ~bodyRead
           /\ pc = "responded" => AnsweredWith(401)

\* a POST with the configured token has been answered 401 because
\* BRIDGE_TOKEN is unset, and one with a wrong token because it differs
C11_Witness ==
    /\ handler \in SendHandlers
    /\ req.method = "POST"
    /\ pc = "responded"
    /\ AnsweredWith(401)
    /\ \/ BridgeTokenUnset /\ QueryToken = V_bridgeToken
       \/ ~BridgeTokenUnset /\ QueryToken = <<"b","a","d">>

\* the POST passed the token check
Authorized ==
    /\ handler \in SendHandlers
    /\ req.method = "POST"
    /\ ~BridgeTokenUnset
    /\ Str(ComparedToken) = env.BRIDGE_TOKEN

\* the document the request body holds
Document == IF req.jsonForm = "object" THEN Obj(req.fields) ELSE Obj(<<>>)

MailKeys == {s_to, s_from, s_subject, s_text}

\* a field of the message is missing or empty
MissingOrEmpty(key) == ~Truthy(Get(Document, key))

\* C12: an authorized POST in which one of to, from, subject, text is
\* missing or empty is answered 400 and no mail is sent; a mail is sent only
\* when all four are there, and it carries them
C12_MissingFieldAnswers400 ==
    /\ (Authorized /\ \E key \in MailKeys : MissingOrEmpty(key))
           => /\ mails = <<>>
              /\ smtp = NoSmtp
              /\ pc = "responded" => AnsweredWith(400)
    /\ mails # <<>> =>
           /\ \A key \in MailKeys : ~MissingOrEmpty(key)
           /\ \A i \in 1..Len(mails) :
                  /\ Truthy(mails[i].to) /\ Truthy(mails[i].from)
                  /\ Truthy(mails[i].subject) /\ Truthy(mails[i].text)

\* an authorized POST without a subject has been answered 400
C12_Witness ==
    /\ Authorized
    /\ ~HasKey(Document, s_subject)
    /\ \A key \in MailKeys \ {s_subject} : ~MissingOrEmpty(key)
    /\ pc = "responded"
    /\ AnsweredWith(400)

\* the request body reaches the handler as a document with all four
\* fields, none of them blank: a JSON body, or a text body that the second
\* handler parses
AllFourGiven ==
    /\ req.jsonForm = "object"
    /\ req.ct = "application/json" \/ handler = "api/send.js#2"
    /\ \A key \in MailKeys :
           Get(Document, key).t = "string" /\ Trim(Get(Document, key).s) # <<>>

\* C13: an authorized POST with all four fields calls sendMail exactly
\* once; when sendMail succeeds the answer is 200 with the messageId of the
\* transport, when it throws the answer is 500 with the message of the
\* error, and sendMail is not called again
C13_OneSendMail ==
    /\ Len(mails) <= 1
    /\ (Authorized /\ AllFourGiven /\ pc # "received") =>
           /\ Len(mails) = 1
           /\ pc = "awaitSend" => (smtp = NoSmtp /\ responses = <<>>)
           /\ pc = "responded" =>
                  /\ smtp.kind = "sent" =>
                         responses = <<Response(200, Obj(<<Prop(<<"o","k">>, Bool(TRUE)),
                                                         Prop(s_messageId, smtp.messageId)>>))>>
                  /\ smtp.kind = "throws" =>
                         responses = <<Response(500, ErrorBody(smtp.message))>>
                  /\ smtp.kind # "none"

\* sendMail threw and the relay has answered
C13_Witness ==
    /\ Authorized
    /\ AllFourGiven
    /\ pc = "responded"
    /\ smtp.kind = "throws"
    /\ Len(mails) = 1

(***************************************************************************)
(* Properties of the body readers                                          *)
(***************************************************************************)
\* what the body reader of handler h returns for request r
BodyOf(h, r) ==
    CASE h = "api/meta-capi-app.js" -> readBody(r)
      [] h = "api/meta-capi.js#1" -> readBodyDebug(r)
      [] h = "api/meta-capi.js#2" -> readBodyRegex(r)
      [] h = "unnamed/part_003" -> readBodySubmit(r)
      [] h = "unnamed/part_004" -> readBodyFlat(r)

\* the request was answered 500 before any call to the ingestion endpoint
\* although the configuration is there: reading the body or extracting
\* from it threw
FailedBeforeForwarding == caught # <<>> /\ remote.kind = "none"

\* C14: a body that cannot be parsed for its declared content type (text
\* that is not JSON sent as application/json) does not fail the request in
\* a conversion-event handler: nothing is thrown, and once the body is read
\* an event without PII is forwarded
C14_MalformedBodyDegrades ==
    (/\ handler \in ConvHandlers
     /\ req.method = "POST"
     /\ req.ct = "application/json"
     /\ req.jsonForm = "malformed")
        => /\ ~IsThrow(BodyOf(handler, req))
           /\ ~FailedBeforeForwarding
           /\ (bodyRead /\ ~ConfigMissing) =>
                  /\ Len(outbound) = 1
                  /\ \A key \in PIIKeys : ~HasKey(SentUserData(outbound[1]), key)

\* the handlers whose body reader decodes a multipart body
MultipartReaders == ConvHandlers \ {"unnamed/part_004"}

\* the handlers whose body reader returns the flat fields of a multipart body
FieldReaders == MultipartReaders \ {"api/meta-capi.js#2"}

C16_ExtractionNeverFails ==
    (/\ handler \in ConvHandlers
     /\ req.method = "POST"
     /\ req.jsonForm # "malformed")
        => ~FailedBeforeForwarding

\* the field map a multipart body stands for: one entry per named part, in
\* the order of the parts, with the value of the part
SentFields(w) == Obj([i \in 1..Len(w.parts) |-> Prop(w.parts[i].name, Str(w.parts[i].value))])

\* C17: whatever boundary token the content-type header declares (any
\* characters, any letter case), with or without extra headers in the parts
\* and whatever follows the closing boundary marker, the field map of the
\* body reader has one entry per named part, with the exact value of the part
C17_FieldMapExact ==
    (wire # NoWire /\ bodyRead) => fieldMap = SentFields(wire)

\* the body without the two entries the first handler of api/meta-capi.js
\* adds to every body it returns
Untagged(o) ==
    IF o.t = "object"
    THEN Obj(SelectSeq(o.p, LAMBDA e : e.k \notin {<<"_","r","a","w">>, <<"_","c","t">>}))
    ELSE o

\* the content type is none of JSON, URL-encoded or multipart
UndeclaredType ==
    req.ct \notin {"application/json", "application/x-www-form-urlencoded", "multipart/form-data"}

\* C18: for a content type that is none of JSON, URL-encoded or multipart
\* the body reader returns the JSON parse of the body when the body is
\* valid JSON (a document or null), and the URL-decoded parse of it
\* otherwise; it never throws
C18_FallbackChain ==
    (handler \in ConvHandlers /\ req.method = "POST" /\ UndeclaredType)
        => /\ ~IsThrow(BodyOf(handler, req))
           /\ req.jsonForm = "object" => Untagged(BodyOf(handler, req)) = Obj(req.fields)
           /\ req.jsonForm = "null" => BodyOf(handler, req) = Null
           /\ req.jsonForm = "pairs" => Untagged(BodyOf(handler, req)) = Obj(req.fields)
           /\ req.jsonForm \in {"empty", "malformed"} =>
                  /\ BodyOf(handler, req).t = "object"
                  /\ \A i \in 1..Len(BodyOf(handler, req).p) :
                         BodyOf(handler, req).p[i].v \in {Str(<<>>), RawText(req), Str(<<"c","t">>)}

(***************************************************************************)
(* Properties of the outbound event                                        *)
(***************************************************************************)
\* the entries of the submission: the flat fields and the raw submission
Submitted == req.fields \o (IF req.rrForm = "object" THEN req.rr ELSE <<>>)

\* the tracking identifiers the submission supplies: the values under the
\* key fbc or a key that ends in _fbc
SuppliedFbc ==
    {Submitted[i].v : i \in {j \in 1..Len(Submitted) :
        /\ Submitted[j].k = s_fbc \/ EndsWith(Submitted[j].k, <<"_">> \o s_fbc)
        /\ Truthy(Submitted[j].v)}}

\* the parent and referring URLs of the request: the flat field and the
\* entry of the raw submission named parentURL, and the Referer header
ParentURLs ==
    {Submitted[i].v : i \in {j \in 1..Len(Submitted) : Submitted[j].k = s_parentURL}}
    \cup {req.referer}

\* the fbclid query parameters they carry
CarriedFbclids ==
    {SearchParam(u.s, s_fbclid).s : u \in {v \in ParentURLs : v.t = "string" /\ Truthy(SearchParam(v.s, s_fbclid))}}

\* C19: the outbound fbc is the submitted tracking identifier, unchanged,
\* when one was supplied; otherwise, when a parent or referring URL carries
\* an fbclid, it is "fb.1.<now in seconds>.<fbclid>"; otherwise it is absent
C19_FbcRule ==
    (handler \in ConvHandlers /\ Len(outbound) > 0)
        => LET ud == SentUserData(outbound[1])
           IN  IF SuppliedFbc # {} THEN Get(ud, s_fbc) \in SuppliedFbc
               ELSE IF CarriedFbclids # {}
               THEN Get(ud, s_fbc) \in {Str(<<"f","b",".","1",".">> \o now.s \o <<".">> \o id) : id \in CarriedFbclids}
               ELSE ~HasKey(ud, s_fbc)

\* the fixed source URLs of the deployments
FixedSourceUrls == {Str(s_url_app), Str(s_url_survey), Str(s_url_application), Str(s_url_lead_form)}

\* C20: the outbound event_source_url is the fixed URL of the deployment
\* or the value of the Referer header; it is never a URL of the form
\* builder and never a value of the submission
C20_SourceUrlFixedOrReferer ==
    (handler \in ConvHandlers /\ Len(outbound) > 0)
        => LET url == Get(SentEvent(outbound[1]), s_event_source_url)
           IN  /\ url \in FixedSourceUrls \/ (Truthy(req.referer) /\ url = req.referer)
               /\ ~Shows(url, <<"j","o","t","f","o","r","m">>)
               /\ \A i \in 1..Len(Submitted) : ~Shows(url, JSString(Submitted[i].v))

(***************************************************************************)
(* normalizeDOB on its own: dates as people write them                     *)
(***************************************************************************)

DigitChars == <<"0","1","2","3","4","5","6","7","8","9">>

\* the decimal numeral of n, and the same with at least two digits
RECURSIVE Numeral(_)
Numeral(n) ==
    IF n < 10 THEN <<DigitChars[n + 1]>>
    ELSE Numeral(n \div 10) \o <<DigitChars[(n % 10) + 1]>>

TwoDigit(n) == IF n < 10 THEN <<"0">> \o Numeral(n) ELSE Numeral(n)

\* the calendar dates written, as <<year, month, day>>
BirthYears == {1990, 2004}

BirthMonths == {1, 5, 12}

BirthDays == {4, 9, 31}

BirthDates == BirthYears \X BirthMonths \X BirthDays

\* one way of writing a date: year first or year last, each separator a
\* dash or a slash, month and day with or without the leading zero
Written(date, yearFirst, sep1, sep2, padMonth, padDay) ==
    LET y == Numeral(date[1])
        mo == IF padMonth THEN TwoDigit(date[2]) ELSE Numeral(date[2])
        d == IF padDay THEN TwoDigit(date[3]) ELSE Numeral(date[3])
    IN  IF yearFirst THEN y \o <<sep1>> \o mo \o <<sep2>> \o d
        ELSE mo \o <<sep1>> \o d \o <<sep2>> \o y

DobCalls ==
    {[fn |-> "normalizeDOB", date |-> date, yearFirst |-> yf,
      v |-> Str(Written(date, yf, sep[1], sep[2], pad[1], pad[2]))] :
        date \in BirthDates, yf \in BOOLEAN, sep \in DateSep \X DateSep,
        pad \in BOOLEAN \X BOOLEAN}

DobInit ==
    /\ arg \in DobCalls
    /\ result = NotCalled
    /\ handler \in {"api/meta-capi-app.js", "unnamed/part_003"}
    /\ req = Request("POST", "application/json", "object", <<>>, "absent", <<>>, Undef)
    /\ env \in {e \in Envs : Truthy(e.META_PIXEL_ID) /\ Truthy(e.META_ACCESS_TOKEN) /\ ~Truthy(e.META_TEST_EVENT_CODE)}
    /\ pc = "readBody"
    /\ bodyRead = TRUE
    /\ extracted = NotExtracted
    /\ outbound = <<>>
    /\ remote = NoRemote
    /\ caught = <<>>
    /\ responses = <<>>
    /\ logs = <<>>
    /\ mails = <<>>
    /\ smtp = NoSmtp
    /\ wire = NoWire
    /\ fieldMap = Undef
    /\ app = NoApp

\* const db = normalizeDOB(dobRaw)
NormalizeDob ==
    /\ arg.fn = "normalizeDOB"
    /\ ~result.returned
    /\ result' = Returned(normalizeDOB(arg.v))
    /\ UNCHANGED <<arg, app, wire, fieldMap, handler, req, env, pc, bodyRead, extracted, outbound,
                   remote, caught, responses, logs, mails, smtp>>

DobNext == NormalizeDob

DobSpec == DobInit /\ [][DobNext]_vars

\* C21: every way of writing a date, year first or year last, with dashes
\* or slashes and with or without leading zeros, is normalised to the same
\* eight digits: the year, the two-digit month and the two-digit day
C21_OneNormalForm ==
    (arg.fn = "normalizeDOB" /\ result.returned) =>
        result.value = Str(Numeral(arg.date[1]) \o TwoDigit(arg.date[2]) \o TwoDigit(arg.date[3]))

\* "1990/05/4" has been normalised, to the digits "05/04/1990" and
\* "1990-05-04" are normalised to
C21_Witness ==
    /\ arg.fn = "normalizeDOB" /\ result.returned
    /\ arg.v = Str(<<"1","9","9","0","/","0","5","/","4">>)
    /\ result.value = Str(<<"1","9","9","0","0","5","0","4">>)
    /\ normalizeDOB(Str(<<"0","5","/","0","4","/","1","9","9","0">>)) = result.value
    /\ normalizeDOB(Str(<<"1","9","9","0","-","0","5","-","0","4">>)) = result.value

(***************************************************************************)
(* The lookups of api/meta-capi-app.js on their own                        *)
(***************************************************************************)

\* a key as a form builder prefixes it: "q3_" + key
Suffixed(key) == <<"q","3","_">> \o key

\* what one source can hold under a key: nothing, the empty string, or a
\* value of its own
Held(mark) == {Undef, Str(<<>>), Str(<<mark>>)}

\* an object with the exact key and the suffixed key, each only when held
Source(key, exact, suffixed) ==
    Obj((IF exact = Undef THEN <<>> ELSE <<Prop(key, exact)>>)
        \o (IF suffixed = Undef THEN <<>> ELSE <<Prop(Suffixed(key), suffixed)>>))

LookupKeys == {s_email, s_dateOf, s_fbp}

LookupCalls ==
    {[fn |-> "lookup", key |-> key,
      fields |-> Source(key, held[1], held[3]), rr |-> Source(key, held[2], held[4])] :
        key \in LookupKeys,
        held \in Held("A") \X Held("B") \X Held("C") \X Held("D")}

LookupInit ==
    /\ arg \in LookupCalls
    /\ result = NotCalled
    /\ handler = "api/meta-capi-app.js"
    /\ req = Request("POST", "multipart/form-data", "object", <<>>, "absent", <<>>, Undef)
    /\ env \in {e \in Envs : Truthy(e.META_PIXEL_ID) /\ Truthy(e.META_ACCESS_TOKEN) /\ ~Truthy(e.META_TEST_EVENT_CODE)}
    /\ pc = "readBody"
    /\ bodyRead = TRUE
    /\ extracted = NotExtracted
    /\ outbound = <<>>
    /\ remote = NoRemote
    /\ caught = <<>>
    /\ responses = <<>>
    /\ logs = <<>>
    /\ mails = <<>>
    /\ smtp = NoSmtp
    /\ wire = NoWire
    /\ fieldMap = Undef
    /\ app = NoApp

\* the handler looks one field up in the body { fields, rawRequest } that
\* readBody returns for a multipart request
LookUp ==
    /\ arg.fn = "lookup"
    /\ ~result.returned
    /\ LET body == Obj(<<Prop(s_fields, arg.fields), Prop(s_rawRequest, arg.rr)>>)
           rr == Or(Get(body, s_rawRequest), Obj(<<>>))
           fields == Or(Get(body, s_fields), Or(body, Obj(<<>>)))
       IN  result' = Returned(IF arg.key \in {s_fbp, s_fbc}
                              THEN BrowserId(body, fields, rr, arg.key)
                              ELSE Lookup(fields, rr, arg.key))
    /\ UNCHANGED <<arg, app, wire, fieldMap, handler, req, env, pc, bodyRead, extracted, outbound,
                   remote, caught, responses, logs, mails, smtp>>

LookupNext == LookUp

LookupSpec == LookupInit /\ [][LookupNext]_vars

\* a value a field can be built from: a string that is not empty
Usable(v) == v # Undef /\ v.t = "string" /\ v.s # <<>>

\* the sources of the field in the order of the lookup: the exact key in the
\* flat field map, the exact key in the raw submission, then the suffixed
\* key in either
ExactSources == <<Get(arg.fields, arg.key), Get(arg.rr, arg.key)>>

SuffixSources == {Get(arg.fields, Suffixed(arg.key)), Get(arg.rr, Suffixed(arg.key))}

\* C22: the value used for a field is the first usable one in the order flat
\* exact key, nested exact key, suffixed key in either; when no source holds
\* a usable value, none is used
C22_LookupOrder ==
    (arg.fn = "lookup" /\ result.returned) =>
        IF Usable(ExactSources[1]) THEN result.value = ExactSources[1]
        ELSE IF Usable(ExactSources[2]) THEN result.value = ExactSources[2]
        ELSE IF \E v \in SuffixSources : Usable(v)
             THEN result.value \in {v \in SuffixSources : Usable(v)}
        ELSE ~Usable(result.value)

(***************************************************************************)
(* Applicant extraction: the handlers that read the applicant out of the   *)
(* raw submission, run on submissions built for the purpose                *)
(***************************************************************************)

V_other == <<"C","y">>

K_q12_utm_campaign == <<"q","1","2","_","u","t","m","_","c","a","m","p","a","i","g","n">>

K_q24_name == <<"q","2","4","_","n","a","m","e">>

\* the entries the raw submission is built from: for api/meta-capi.js the
\* mapped questions, whole and in part, and the plain top-level keys; for
\* the SubmitApplication handler applicant answers and tracking entries
\* whose values look like applicant data
ApplicantPool(h) ==
    IF h = "api/meta-capi.js#1"
    THEN {Prop(s_q24_whatsYour24, Obj(<<Prop(s_first, Str(V_first)), Prop(s_last, Str(V_last))>>)),
          Prop(s_q24_whatsYour24, Obj(<<Prop(s_first, Str(V_first))>>)),
          Prop(s_first_name, Str(V_other)),
          Prop(s_last_name, Str(V_other)),
          Prop(s_q25_whatsYour25, Obj(<<Prop(s_full, Str(V_phone))>>)),
          Prop(s_q25_whatsYour25, Obj(<<Prop(s_full, Str(<<>>))>>)),
          Prop(s_q26_whatsYour26, Obj(<<Prop(s_full, Str(V_phone2))>>)),
          Prop(s_q26_whatsYour26, Str(V_phone2))}
    ELSE {Prop(K_q5_name, Str(V_name)),
          Prop(K_q24_name, Obj(<<Prop(s_first, Str(V_first))>>)),
          Prop(s_last_name, Str(V_other)),
          Prop(K_q9_mail, Str(V_email)),
          Prop(s_utm_source, Str(V_email2)),
          Prop(K_q12_utm_campaign, Str(V_dob)),
          Prop(s_fbp, Str(V_email2)),
          Prop(s_event_id, Str(V_dob))}

\* the multipart submissions whose rawRequest document holds at most MaxRaw
\* of these entries, no key twice
ApplicantRequests(h) ==
    {Request("POST", "multipart/form-data", "object", <<>>, "object", r, Undef) :
        r \in {x \in Arrangements(ApplicantPool(h), MaxRaw) :
                  \A i, j \in 1..Len(x) : i # j => x[i].k # x[j].k}}

ApplicantInit ==
    /\ handler \in {"api/meta-capi.js#1", "unnamed/part_003"}
    /\ req \in ApplicantRequests(handler)
    /\ env \in {e \in Envs : Truthy(e.META_PIXEL_ID) /\ Truthy(e.META_ACCESS_TOKEN)}
    /\ pc = "received"
    /\ bodyRead = FALSE
    /\ extracted = NotExtracted
    /\ outbound = <<>>
    /\ remote = NoRemote
    /\ caught = <<>>
    /\ responses = <<>>
    /\ logs = <<>>
    /\ mails = <<>>
    /\ smtp = NoSmtp
    /\ wire = NoWire
    /\ fieldMap = Undef
    /\ arg = NoCall
    /\ result = NotCalled
    /\ app = NoApp

ApplicantNext == MethodCheck \/ MetaCapi \/ SubmitApplication \/ FetchSettles

ApplicantSpec == ApplicantInit /\ [][ApplicantNext]_vars

\* the names a handler settled on, an empty one counted as none
SentNames == <<Or(extracted.first_name, Undef), Or(extracted.last_name, Undef)>>

\* the first / last pairs the raw submission offers, each from one source:
\* a structured name answer, a name written as one string, or the plain
\* first_name / last_name keys
NameSources ==
    LET rr == Obj(req.rr)
        values == {req.rr[i].v : i \in 1..Len(req.rr)}
        structured == {<<Or(Get(x, s_first), Undef), Or(Get(x, s_last), Undef)>> :
                          x \in {y \in values : y.t = "object"}}
        written == {<<SplitWords(x.s).first, SplitWords(x.s).last>> :
                          x \in {y \in values : y.t = "string" /\ Trim(y.s) # <<>>}}
    IN  structured \cup written
        \cup {<<Or(Get(rr, s_first_name), Undef), Or(Get(rr, s_last_name), Undef)>>}

\* C23: the first and last name a handler uses come from one source of the
\* submission together; they are never put together from a structured name
\* answer and a separate top-level key
C23_NoMerging ==
    (extracted.done /\ SentNames # <<Undef, Undef>>) => SentNames \in NameSources

\* the phone a submission gives for a role: the "full" text of the phone
\* answer under the role's key, when there is one
RolePhone(key) ==
    LET a == Get(Obj(req.rr), key)
    IN  IF a.t = "object" /\ Truthy(Get(a, s_full)) THEN Get(a, s_full) ELSE Undef

\* the phones given, business first
PhonesGiven == SelectSeq(<<RolePhone(s_q25_whatsYour25), RolePhone(s_q26_whatsYour26)>>, Truthy)

\* C24: in api/meta-capi.js user_data.ph is the list of the digests of the
\* phones given, each hashed on its own, the business phone before the
\* personal one: two digests for two phones, one for one, and no ph at all
\* when no phone is given
C24_PhonesHashedSeparately ==
    \A i \in 1..Len(outbound) :
        handler = "api/meta-capi.js#1" =>
            IF PhonesGiven = <<>> THEN ~HasKey(SentUserData(outbound[i]), s_ph)
            ELSE Get(SentUserData(outbound[i]), s_ph)
                    = Arr([j \in 1..Len(PhonesGiven) |-> Hashed(PhonesGiven[j])])

\* a submission with both phones was forwarded with two digests
C24_Witness ==
    /\ handler = "api/meta-capi.js#1"
    /\ Len(outbound) = 1
    /\ Len(PhonesGiven) = 2
    /\ Len(Get(SentUserData(outbound[1]), s_ph).p) = 2

\* a key without the "qNN_" a form builder puts before it
Unprefixed(k) ==
    LET u == IndexOf(k, "_")
    IN  IF Len(k) > 0 /\ k[1] = "q" /\ u > 2 /\ AllDigits(SubSeq(k, 2, u - 1))
        THEN SubSeq(k, u + 1, Len(k)) ELSE k

\* marketing and tracking metadata: UTM parameters, the fbp / fbc
\* identifiers and event_id
TrackingKey(key) ==
    \/ StartsAt(Unprefixed(ToLowerCase(key)), 1, <<"u","t","m","_">>)
    \/ Unprefixed(ToLowerCase(key)) \in {s_fbp, s_fbc}
    \/ ToLowerCase(key) = s_event_id

\* the raw submission without its tracking entries
WithoutTracking == Obj(SelectSeq(req.rr, LAMBDA e : ~TrackingKey(e.k)))

\* C27: the generic applicant scan takes nothing from tracking entries: the
\* applicant it finds is the one it finds in the submission without them
C27_TrackingNeverApplicant ==
    (handler = "unnamed/part_003" /\ extracted.done) =>
        LET clean == FinalFields(extractApplicant(WithoutTracking))
        IN  /\ extracted.email = clean.email
            /\ extracted.phones = <<clean.phone>>
            /\ extracted.first_name = clean.names.first
            /\ extracted.last_name = clean.names.last
            /\ extracted.db = clean.db

\* C25: every outbound call carries the configured test code as a query
\* parameter of its URL, and carries no test code, in the URL or in the
\* body, when none is configured
C25_TestCodeInQuery ==
    \A i \in 1..Len(outbound) :
        IF Truthy(env.META_TEST_EVENT_CODE)
        THEN outbound[i].test_event_code = env.META_TEST_EVENT_CODE
        ELSE /\ outbound[i].test_event_code = Undef
             /\ ~HasKey(outbound[i].body, s_test_event_code)

(***************************************************************************)
(* The Smart-PDF application handler on submissions with a partner         *)
(***************************************************************************)

K_q7_partnerMobile == <<"q","7","_","p","a","r","t","n","e","r","M","o","b","i","l","e">>

\* the keys the handler reads the partner from
PartnerKeys == {s_partnerName, s_dateOf22, s_partnerEmail, s_partnerMobile}

\* a key that names a partner field, plainly or behind a "qNN_"
IsPartnerKey(k) == k \in PartnerKeys \/ Unprefixed(k) \in PartnerKeys

\* the entries a submission with a partner is built from
PartnerPool ==
    {Prop(s_name, Str(V_name)), Prop(s_email, Str(V_email)),
     Prop(s_partnerName, Str(V_other)), Prop(s_partnerEmail, Str(V_email2)),
     Prop(s_partnerEmail, Str(V_blank)), Prop(K_q7_partnerMobile, Str(V_phone2)),
     Prop(s_dateOf22, Str(V_dob))}

\* the values a partner field can hold instead
PartnerValues == {Str(V_other), Str(V_email2), Str(V_dob)}

\* submissions with at most MaxFields entries, no key twice, sent as a
\* multipart body (the last entry inside the rawRequest document or all of
\* them as parts) or as a flat JSON document
PartnerRequests ==
    LET entries == {x \in Arrangements(PartnerPool, MaxFields) :
                       \A i, j \in 1..Len(x) : i # j => x[i].k # x[j].k}
    IN  {Request("POST", "multipart/form-data", "object", f, "absent", <<>>, Undef) : f \in entries}
        \cup {Request("POST", "multipart/form-data", "object",
                      SubSeq(f, 1, Len(f) - 1), "object", SubSeq(f, Len(f), Len(f)), Undef) :
                 f \in entries \ {<<>>}}
        \cup {Request("POST", "application/json", "object", f, "absent", <<>>, Undef) : f \in entries}

PartnerInit ==
    /\ handler = "api/meta-capi-app.js"
    /\ req \in PartnerRequests
    /\ env \in {e \in Envs : Truthy(e.META_PIXEL_ID) /\ Truthy(e.META_ACCESS_TOKEN) /\ ~Truthy(e.META_TEST_EVENT_CODE)}
    /\ pc = "received"
    /\ bodyRead = FALSE
    /\ extracted = NotExtracted
    /\ outbound = <<>>
    /\ remote = NoRemote
    /\ caught = <<>>
    /\ responses = <<>>
    /\ logs = <<>>
    /\ mails = <<>>
    /\ smtp = NoSmtp
    /\ wire = NoWire
    /\ fieldMap = Undef
    /\ arg = NoCall
    /\ result = NotCalled
    /\ app = NoApp

PartnerNext == MethodCheck \/ MetaCapiApp \/ FetchSettles

PartnerSpec == PartnerInit /\ [][PartnerNext]_vars

\* the entries that differ from the given ones only in the values of the
\* partner fields that are not blank
RECURSIVE OtherPartner(_)
OtherPartner(entries) ==
    IF entries = <<>> THEN {<<>>}
    ELSE LET e == Head(entries)
             heads == IF IsPartnerKey(e.k) /\ NotBlank(e.v)
                      THEN {Prop(e.k, v) : v \in PartnerValues} \cup {e}
                      ELSE {e}
         IN  {<<h>> \o t : h \in heads, t \in OtherPartner(Tail(entries))}

\* the submissions that differ from the one received only in that way
Twins ==
    {[req EXCEPT !.fields = f, !.rr = r] : f \in OtherPartner(req.fields), r \in OtherPartner(req.rr)}

\* C26: the payload sent for a submission is the payload the handler builds
\* for every submission that differs from it only in the values of its
\* non-blank partner fields
C26_PartnerValuesNotSent ==
    \A i \in 1..Len(outbound) :
        \A twin \in Twins :
            outbound[i].body = Stringify(MetaCapiAppEvent(readBody(twin), twin, env).payload)

\* a submission whose partner has a name and an email was forwarded with
\* partner_present set
C26_Witness ==
    /\ Len(outbound) = 1
    /\ \E i, j \in 1..Len(req.fields) :
          /\ req.fields[i] = Prop(s_partnerName, Str(V_other))
          /\ req.fields[j] = Prop(s_partnerEmail, Str(V_email2))
    /\ Cardinality(Twins) > 1
    /\ Get(Get(SentEvent(outbound[1]), s_custom_data), s_partner_present) = Bool(TRUE)

\* the token of the request, white space around it removed, is the
\* configured BRIDGE_TOKEN
ValidToken == ~BridgeTokenUnset /\ Str(Trim(QueryToken)) = env.BRIDGE_TOKEN

\* C28: the second relay handler checks the token before the method for
\* every method but OPTIONS: without a valid token the request is answered
\* 401 whatever its method; with one, GET is answered 200 and sends no mail,
\* POST goes on to the check of the fields, and every other method is
\* answered 405
C28_TokenBeforeMethod ==
    (handler = "api/send.js#2" /\ pc # "received" /\ req.method # "OPTIONS") =>
        IF ~ValidToken THEN AnsweredWith(401) /\ mails = <<>> /\ ~bodyRead
        ELSE IF req.method = "GET" THEN AnsweredWith(200) /\ mails = <<>> /\ ~bodyRead
        ELSE IF req.method = "POST"
        THEN /\ bodyRead
             /\ pc = "responded" => Len(responses) = 1 /\ responses[1].status \in {200, 400, 500}
             /\ (\E key \in MailKeys : MissingOrEmpty(key)) => AnsweredWith(400)
        ELSE AnsweredWith(405) /\ mails = <<>> /\ ~bodyRead

\* a GET with the configured token was answered as a health check
C28_Witness ==
    /\ handler = "api/send.js#2"
    /\ req.method = "GET"
    /\ ValidToken
    /\ AnsweredWith(200)
    /\ mails = <<>>

(***************************************************************************)
(* The watermarking app (src/App.js)                                       *)
(*                                                                         *)
(* app holds the React state that handleProcessAll reads and writes        *)
(* (files, logoFile, embedAs, outputMode, processing, logs), what the      *)
(* browser was made to do (downloads, alerts), and run, the call of        *)
(* handleProcessAll in progress: the files and the output mode of the      *)
(* render it was started from, the file it is at, and how far processOne   *)
(* is with it.  A file is its name without ".pdf"; the file "bad" is one   *)
(* PDFDocument.load rejects.                                               *)
(***************************************************************************)

\* the most files queued, and the most calls of handleProcessAll
MaxQueue == 2

MaxCalls == 1

FileNames == {"a", "bad"}

EmbedModes == {"image", "text", "both"}

OutputModes == {"download", "viewer"}

NoRun == [queue |-> <<>>, outputMode |-> "download", at |-> 0, stage |-> "none", base |-> 0, sent |-> 0]

AppInit ==
    /\ app = [open |-> TRUE, files |-> <<>>, logoFile |-> FALSE, embedAs |-> "image",
              outputMode |-> "download", processing |-> FALSE, logs |-> <<>>,
              downloads |-> <<>>, alerts |-> 0, calls |-> 0, run |-> NoRun]
    /\ handler = "src/App.js"
    /\ req = Request("GET", "application/json", "empty", <<>>, "absent", <<>>, Undef)
    /\ env \in {e \in Envs : ~Truthy(e.META_PIXEL_ID) /\ ~Truthy(e.META_ACCESS_TOKEN)}
    /\ pc = "responded"
    /\ bodyRead = FALSE
    /\ extracted = NotExtracted
    /\ outbound = <<>>
    /\ remote = NoRemote
    /\ caught = <<>>
    /\ responses = <<>>
    /\ logs = <<>>
    /\ mails = <<>>
    /\ smtp = NoSmtp
    /\ wire = NoWire
    /\ fieldMap = Undef
    /\ arg = NoCall
    /\ result = NotCalled

\* log(m): setLogs(prev => [m, ...prev])
Logged(entries, m) == <<m>> \o entries

\* what processOne logs first, and what it downloads and logs last
ProcessingLine(name) == [m |-> "Processing", name |-> name, suffix |-> ".pdf"]

OutputOf(name, outputMode) ==
    [name |-> name, suffix |-> IF outputMode = "download" THEN "_wm.pdf" ELSE "_wm_viewer.html"]

DoneLine(name, outputMode) ==
    [m |-> IF outputMode = "download" THEN "Done" ELSE "Viewer generated",
     name |-> name, suffix |-> OutputOf(name, outputMode).suffix]

ErrorLine == [m |-> "Error", name |-> "load", suffix |-> ""]

\* the rest of the state is that of the request handlers
AppOnly ==
    UNCHANGED <<arg, result, wire, fieldMap, handler, req, env, pc, bodyRead, extracted, outbound,
                remote, caught, responses, logs, mails, smtp>>

\* onFilesPicked / onDrop: a PDF is added to the queue
PickFile ==
    /\ app.open
    /\ Len(app.files) < MaxQueue
    /\ \E f \in FileNames : app' = [app EXCEPT !.files = Append(@, f)]
    /\ AppOnly

\* the Clear button of the queue
ClearFiles ==
    /\ app.open
    /\ app.files # <<>>
    /\ app' = [app EXCEPT !.files = <<>>]
    /\ AppOnly

\* onLogoPicked
PickLogo ==
    /\ app.open
    /\ ~app.logoFile
    /\ app' = [app EXCEPT !.logoFile = TRUE]
    /\ AppOnly

\* the Mode buttons
SetEmbedAs ==
    /\ app.open
    /\ \E k \in EmbedModes \ {app.embedAs} : app' = [app EXCEPT !.embedAs = k]
    /\ AppOnly

\* the Output buttons
SetOutputMode ==
    /\ app.open
    /\ \E k \in OutputModes \ {app.outputMode} : app' = [app EXCEPT !.outputMode = k]
    /\ AppOnly

\* handleProcessAll, up to the first await of processOne: the two early
\* returns, else setProcessing(true) and the first "Processing" line.  The
\* button that calls it is disabled while processing.
HandleProcessAll ==
    /\ app.open
    /\ ~app.processing
    /\ app.calls < MaxCalls
    /\ IF app.files = <<>>
       THEN app' = [app EXCEPT !.calls = @ + 1]
       ELSE IF ~app.logoFile /\ app.embedAs = "image"
       THEN app' = [app EXCEPT !.calls = @ + 1, !.alerts = @ + 1]
       ELSE app' = [app EXCEPT !.calls = @ + 1,
                               !.processing = TRUE,
                               !.logs = Logged(@, ProcessingLine(app.files[1])),
                               !.run = [queue |-> app.files, outputMode |-> app.outputMode,
                                        at |-> 1, stage |-> "load",
                                        base |-> Len(app.logs), sent |-> Len(app.downloads)]]
    /\ AppOnly

\* processOne: PDFDocument.load has read the file
FileLoaded ==
    /\ app.open
    /\ app.run.stage = "load"
    /\ app.run.queue[app.run.at] # "bad"
    /\ app' = [app EXCEPT !.run.stage = "save"]
    /\ AppOnly

\* a catch that logs the error and goes on with the next file
FileThrowsSkips ==
    /\ app.open
    /\ app.run.stage = "load"
    /\ app.run.queue[app.run.at] = "bad"
    /\ IF app.run.at < Len(app.run.queue)
       THEN app' = [app EXCEPT !.logs = Logged(Logged(@, ErrorLine),
                                               ProcessingLine(app.run.queue[app.run.at + 1])),
                               !.run.at = @ + 1]
       ELSE app' = [app EXCEPT !.logs = Logged(@, ErrorLine), !.alerts = @ + 1,
                               !.processing = FALSE, !.run.stage = "failed"]
    /\ AppOnly

\* a catch without the finally
FileThrowsStuck ==
    /\ app.open
    /\ app.run.stage = "load"
    /\ app.run.queue[app.run.at] = "bad"
    /\ app' = [app EXCEPT !.logs = Logged(@, ErrorLine), !.alerts = @ + 1, !.run.stage = "failed"]
    /\ AppOnly

\* processOne throws: the loop is left, catch logs the error and alerts,
\* finally resets the flag
FileThrows ==
    /\ app.open
    /\ app.run.stage = "load"
    /\ app.run.queue[app.run.at] = "bad"
    /\ app' = [app EXCEPT !.logs = Logged(@, ErrorLine), !.alerts = @ + 1,
                          !.processing = FALSE, !.run.stage = "failed"]
    /\ AppOnly

\* processOne: pdfDoc.save has returned; the output is downloaded and
\* logged, and the loop goes on to the next file or ends, finally
\* resetting the flag
FileSaved ==
    /\ app.open
    /\ app.run.stage = "save"
    /\ LET name == app.run.queue[app.run.at]
           out == app.run.outputMode
       IN  IF app.run.at < Len(app.run.queue)
           THEN app' = [app EXCEPT !.downloads = Append(@, OutputOf(name, out)),
                                   !.logs = Logged(Logged(@, DoneLine(name, out)),
                                                   ProcessingLine(app.run.queue[app.run.at + 1])),
                                   !.run.at = @ + 1, !.run.stage = "load"]
           ELSE app' = [app EXCEPT !.downloads = Append(@, OutputOf(name, out)),
                                   !.logs = Logged(@, DoneLine(name, out)),
                                   !.processing = FALSE, !.run.stage = "done"]
    /\ AppOnly

AppNext ==
    \/ PickFile \/ ClearFiles \/ PickLogo \/ SetEmbedAs \/ SetOutputMode
    \/ HandleProcessAll \/ FileLoaded \/ FileThrows \/ FileSaved

AppSpec == AppInit /\ [][AppNext]_vars

\* the promises processOne awaits settle
AppFairSpec == AppSpec /\ WF_vars(FileLoaded \/ FileThrows \/ FileSaved)

\* a step that is a call of handleProcessAll
Clicked == app'.calls = app.calls + 1

\* C29: handleProcessAll starts no processing and leaves the processing flag
\* false when the queue is empty or when the mode is image-only and no logo
\* is chosen; otherwise it sets the flag, and a set flag is eventually reset
\* to false, whether the files are all processed or one of them throws.
C29_ProcessingFlag ==
    /\ [][Clicked =>
            IF app.files = <<>> \/ (~app.logoFile /\ app.embedAs = "image")
            THEN /\ ~app'.processing
                 /\ app'.run = app.run
                 /\ app'.logs = app.logs
                 /\ app'.downloads = app.downloads
            ELSE /\ app'.processing
                 /\ app'.run.queue = app.files]_vars
    /\ [](app.processing => <>(~app.processing))

\* a call set the flag, came to a file that throws after one that was
\* processed, and the flag is reset
C29_Witness ==
    /\ app.open
    /\ app.calls = 1
    /\ app.run.queue = <<"a", "bad">>
    /\ app.alerts = 1
    /\ app.run.stage = "failed"
    /\ ~app.processing

\* the lines logged by the call in progress or last made, oldest first
RunLogs ==
    [j \in 1..(Len(app.logs) - app.run.base) |-> app.logs[Len(app.logs) - app.run.base + 1 - j]]

\* the downloads of that call, in the order they were made
RunDownloads ==
    [j \in 1..(Len(app.downloads) - app.run.sent) |-> app.downloads[app.run.sent + j]]

\* the files of the call that have produced their download
Produced == Len(RunDownloads)

\* C30: the files of a call are processed one at a time in queue order: the
\* call's log is "Processing" of file 1, its result, "Processing" of file 2,
\* its result, and so on, file i+1 starting only once file i has produced
\* its download; a file that throws is logged as an error, after which no
\* later file is started and the call has ended.
C30_OneAtATimeInOrder ==
    app.open =>
        /\ Produced <= Len(app.run.queue)
        /\ \A k \in 1..Produced :
              RunDownloads[k] = OutputOf(app.run.queue[k], app.run.outputMode)
        /\ \A j \in 1..Len(RunLogs) :
              IF j % 2 = 1
              THEN /\ (j + 1) \div 2 <= Len(app.run.queue)
                   /\ RunLogs[j] = ProcessingLine(app.run.queue[(j + 1) \div 2])
                   /\ Produced >= (j - 1) \div 2
              ELSE \/ /\ RunLogs[j] = DoneLine(app.run.queue[j \div 2], app.run.outputMode)
                      /\ Produced >= j \div 2
                   \/ /\ RunLogs[j] = ErrorLine
                      /\ j = Len(RunLogs)
                      /\ Produced = j \div 2 - 1
                      /\ ~app.processing
        /\ Len(RunLogs) \in {2 * Produced, 2 * Produced + 1, 2 * Produced + 2}
        /\ app.processing => Len(RunLogs) = 2 * Produced + 1

\* the first file of a queue of two threw: the error is logged, the second
\* file was never started, and nothing was downloaded
C30_Witness ==
    /\ app.open
    /\ app.run.queue = <<"bad", "a">>
    /\ RunLogs = <<ProcessingLine("bad"), ErrorLine>>
    /\ RunDownloads = <<>>
    /\ ~app.processing

====
